---- MODULE Spec2Model ----
(***************************************************************************)
(* Authentication / authorization core of go-template:                     *)
(*   - internal/jwt/service.go        token service                        *)
(*   - app/api/middleware/auth.go     access-control gates of the API      *)
(*   - domain/auth/usecase.go         login orchestration                  *)
(*   - gateways/repository/pg         account store (users table)          *)
(*                                                                         *)
(* Strings are sequences of atoms.  An atom is a word, a space or the      *)
(* compact serialisation of one signed token.  Time is counted in ticks,   *)
(* TicksPerSecond of them to the second, so that the truncation of the     *)
(* registered claims to whole seconds is visible.                          *)
(*                                                                         *)
(*   - gateways/web/client.go         API client of the browser surfaces   *)
(*   - app/web, app/admin middleware  session gates of the browser surfaces*)
(*                                                                         *)
(* Nine specifications over the same variables:                            *)
(*   SpecJwt       one client driving the token service while time passes  *)
(*   SpecGate      one request passing one access-control gate             *)
(*   SpecUseCases  Login and CreateUser calls interleaved on one store     *)
(*   SpecRegister  Register and CreateUser calls interleaved on one store  *)
(*   SpecAdmin     administrative requests served one after the other      *)
(*   SpecWeb       browser requests interleaved on one shared API client   *)
(*   SpecAdminLogin admin logins interleaved with CreateUser calls         *)
(*   SpecSearch    SearchUsers over a table with an account of any email   *)
(*   SpecSettings  POST /settings of the admin surface behind its two gates*)
(***************************************************************************)
EXTENDS Integers, Sequences, FiniteSets, TLC

VARIABLES
    now,        \* wall clock, in ticks
    svc,        \* the token services, by name (jwt.Service values)
    held,       \* the token string in the client's hand
    heldInfo,   \* how `held` came to be: who minted it, when, from which inputs
    jwtRes,     \* outcome of the last token-service call
    nextJti,    \* uuid source of the token ids
    advances,   \* number of clock advances so far
    req,        \* the HTTP request at an access-control gate (SpecSearch: the
                \* search term of the requests)
    gate,       \* what the gate did with it
    store,      \* the rows of the users table
    pc,         \* where each use-case call stands
    loc,        \* the local variables of each use-case call
    out,        \* what each use-case call returned
    calls,      \* the account-store calls each use-case call has made
    nextId,     \* uuid source of the account ids
    client      \* the API client shared by the requests of a browser surface

jwtVars == <<now, svc, held, heldInfo, jwtRes, nextJti, advances>>

gateVars == <<req, gate>>

useCaseVars == <<store, pc, loc, out, calls, nextId>>

webVars == <<client>>

vars == <<jwtVars, gateVars, useCaseVars, webVars>>

-----------------------------------------------------------------------------
(* Bounds *)

TicksPerSecond == 2
MaxAdvances == 2
MaxJti == 2

-----------------------------------------------------------------------------
(* Time *)

Second == TicksPerSecond
Minute == 60 * Second
Hour == 60 * Minute

Epoch == 10 * Second

\* time.Duration values the clock may advance by between two calls
ClockSteps == {1, Minute, 5 * Minute}

\* jwt.NewNumericDate: t.Truncate(time.Second)
NewNumericDate(t) == t - (t % Second)

-----------------------------------------------------------------------------
(* entities.AccountType *)

AccountTypeUser == "user"
AccountTypeAdmin == "admin"
AccountTypeSuperAdmin == "super_admin"

AccountTypes == {AccountTypeUser, AccountTypeAdmin, AccountTypeSuperAdmin}

-----------------------------------------------------------------------------
(* Token strings *)

EmptyString == <<>>

\* one character
C(x) == [ch |-> x]

Sp == C(" ")

\* the string spelt by a sequence of characters
Chars(cs) == [i \in 1..Len(cs) |-> C(cs[i])]

\* unicode.ToLower on the letters that occur
LowerOf(x) ==
    CASE x = "B" -> "b" [] x = "E" -> "e" [] x = "A" -> "a" [] x = "R" -> "r"
      [] x = "S" -> "s" [] x = "I" -> "i" [] x = "C" -> "c" [] OTHER -> x

\* strings.ToLower
ToLower(s) ==
    [i \in 1..Len(s) |-> IF DOMAIN s[i] = {"ch"} THEN C(LowerOf(s[i].ch)) ELSE s[i]]

RECURSIVE SplitAcc(_, _, _)
SplitAcc(s, cur, acc) ==
    IF s = <<>> THEN Append(acc, cur)
    ELSE IF Head(s) = Sp THEN SplitAcc(Tail(s), <<>>, Append(acc, cur))
    ELSE SplitAcc(Tail(s), Append(cur, Head(s)), acc)

\* strings.Split(s, " ")
Split(s) == SplitAcc(s, <<>>, <<>>)

\* the compact serialisation of a signed token: one atom, no space inside
Encode(t) == << [tok |-> t] >>

IsTokenString(s) == Len(s) = 1 /\ DOMAIN s[1] = {"tok"}

Decode(s) == s[1].tok

NoClaims == [none |-> TRUE]

\* signing methods of the HMAC family (*jwt.SigningMethodHMAC)
HMACMethods == {"HS256", "HS384", "HS512"}

-----------------------------------------------------------------------------
(* internal/jwt/service.go *)

\* the AUTH_TOKEN_TTL strings tried, with what time.ParseDuration makes of them
ExpiryConfigs == {"-1s", "0s", "500ms", "1s", "5m", "6m", "bogus"}

ParseDuration(s) ==
    CASE s = "-1s"   -> [ok |-> TRUE, d |-> 0 - Second]
      [] s = "0s"    -> [ok |-> TRUE, d |-> 0]
      [] s = "500ms" -> [ok |-> TRUE, d |-> Second \div 2]
      [] s = "1s"    -> [ok |-> TRUE, d |-> Second]
      [] s = "5m"    -> [ok |-> TRUE, d |-> 5 * Minute]
      [] s = "6m"    -> [ok |-> TRUE, d |-> 6 * Minute]
      [] OTHER       -> [ok |-> FALSE, d |-> 0]

NewService(secretKey, issuer, expiry) ==
    LET p == ParseDuration(expiry)
    IN  [secretKey |-> secretKey,
         issuer    |-> issuer,
         expiry    |-> IF p.ok THEN p.d ELSE 24 * Hour]

\* t is time.Now(), jti the fresh uuid
GenerateTokenNoExpiryAdded(s, userID, email, accountType, t, jti) ==
    Encode([UserID      |-> userID,
            Email       |-> email,
            AccountType |-> accountType,
            ExpiresAt   |-> NewNumericDate(t),
            IssuedAt    |-> NewNumericDate(t),
            NotBefore   |-> NewNumericDate(t),
            Issuer      |-> s.issuer,
            Subject     |-> userID,
            ID          |-> jti,
            alg         |-> "HS256",
            sig         |-> s.secretKey])

GenerateToken(s, userID, email, accountType, t, jti) ==
    Encode([UserID      |-> userID,
            Email       |-> email,
            AccountType |-> accountType,
            ExpiresAt   |-> NewNumericDate(t + s.expiry),
            IssuedAt    |-> NewNumericDate(t),
            NotBefore   |-> NewNumericDate(t),
            Issuer      |-> s.issuer,
            Subject     |-> userID,
            ID          |-> jti,
            alg         |-> "HS256",
            sig         |-> s.secretKey])

ClaimsOf(t) ==
    [UserID      |-> t.UserID,
     Email       |-> t.Email,
     AccountType |-> t.AccountType,
     ExpiresAt   |-> t.ExpiresAt,
     IssuedAt    |-> t.IssuedAt,
     NotBefore   |-> t.NotBefore,
     Issuer      |-> t.Issuer,
     Subject     |-> t.Subject,
     ID          |-> t.ID]

Invalid(why) == [ok |-> FALSE, err |-> why, claims |-> NoClaims]

ValidateTokenAnyMethod(s, tokenString, t) ==
    IF ~IsTokenString(tokenString) THEN Invalid("malformed")
    ELSE LET tk == Decode(tokenString)
         IN  IF tk.sig # s.secretKey THEN Invalid("signature is invalid")
             ELSE IF ~(t < tk.ExpiresAt) THEN Invalid("token is expired")
             ELSE IF ~(t >= tk.NotBefore) THEN Invalid("token is not valid yet")
             ELSE [ok |-> TRUE, err |-> "", claims |-> ClaimsOf(tk)]

ValidateTokenNoExpiryCheck(s, tokenString, t) ==
    IF ~IsTokenString(tokenString) THEN Invalid("malformed")
    ELSE LET tk == Decode(tokenString)
         IN  IF tk.alg \notin HMACMethods THEN Invalid("unexpected signing method")
             ELSE IF tk.sig # s.secretKey THEN Invalid("signature is invalid")
             ELSE IF ~(t >= tk.NotBefore) THEN Invalid("token is not valid yet")
             ELSE [ok |-> TRUE, err |-> "", claims |-> ClaimsOf(tk)]

ValidateTokenNoSignatureCheck(s, tokenString, t) ==
    IF ~IsTokenString(tokenString) THEN Invalid("malformed")
    ELSE LET tk == Decode(tokenString)
         IN  IF tk.alg \notin HMACMethods THEN Invalid("unexpected signing method")
             ELSE IF ~(t < tk.ExpiresAt) THEN Invalid("token is expired")
             ELSE IF ~(t >= tk.NotBefore) THEN Invalid("token is not valid yet")
             ELSE [ok |-> TRUE, err |-> "", claims |-> ClaimsOf(tk)]

\* jwt.ParseWithClaims with the key function of the service: the string is
\* decoded, the key function refuses every method outside the HMAC family,
\* the signature is verified with the secret, then exp and nbf are checked
\* against t = time.Now().
ValidateToken(s, tokenString, t) ==
    IF ~IsTokenString(tokenString) THEN Invalid("malformed")
    ELSE LET tk == Decode(tokenString)
         IN  IF tk.alg \notin HMACMethods THEN Invalid("unexpected signing method")
             ELSE IF tk.sig # s.secretKey THEN Invalid("signature is invalid")
             ELSE IF ~(t < tk.ExpiresAt) THEN Invalid("token is expired")
             ELSE IF ~(t >= tk.NotBefore) THEN Invalid("token is not valid yet")
             ELSE [ok |-> TRUE, err |-> "", claims |-> ClaimsOf(tk)]

RefreshTokenAtLeastWindow(s, tokenString, t, jti) ==
    LET v == ValidateToken(s, tokenString, t)
    IN  IF ~v.ok THEN [ok |-> FALSE, token |-> EmptyString, minted |-> FALSE]
        ELSE IF v.claims.ExpiresAt - t >= 5 * Minute
             THEN [ok |-> TRUE, token |-> tokenString, minted |-> FALSE]
             ELSE [ok |-> TRUE,
                   token |-> GenerateToken(s, v.claims.UserID, v.claims.Email,
                                           v.claims.AccountType, t, jti),
                   minted |-> TRUE]

RefreshToken(s, tokenString, t, jti) ==
    LET v == ValidateToken(s, tokenString, t)
    IN  IF ~v.ok THEN [ok |-> FALSE, token |-> EmptyString, minted |-> FALSE]
        ELSE IF v.claims.ExpiresAt - t > 5 * Minute
             THEN [ok |-> TRUE, token |-> tokenString, minted |-> FALSE]
             ELSE [ok |-> TRUE,
                   token |-> GenerateToken(s, v.claims.UserID, v.claims.Email,
                                           v.claims.AccountType, t, jti),
                   minted |-> TRUE]

-----------------------------------------------------------------------------
(* app/api/middleware/auth.go *)

Bearer == Chars(<<"b", "e", "a", "r", "e", "r">>)

NoCookie == [present |-> FALSE, value |-> EmptyString]

NoRequest == [header |-> EmptyString, cookie |-> NoCookie]

\* what a gate leaves behind: the status it wrote (0 when it wrote none and
\* passed the request on), whether the wrapped handler ran, and the claims put
\* in the request context for it
Rejected(status) == [status |-> status, next |-> FALSE, ctx |-> NoClaims]

Passed(claims) == [status |-> 0, next |-> TRUE, ctx |-> claims]

StatusFound == 302
StatusUnauthorized == 401
StatusForbidden == 403

\* m is the middleware (its jwtService), r the request, t is time.Now()
RequireAuthTrustsAnyToken(m, r, t) ==
    IF r.header = EmptyString THEN Rejected(StatusUnauthorized)
    ELSE LET parts == Split(r.header)
         IN  IF Len(parts) # 2 \/ ToLower(parts[1]) # Bearer
             THEN Rejected(StatusUnauthorized)
             ELSE IF IsTokenString(parts[2])
                  THEN Passed(ClaimsOf(Decode(parts[2])))
                  ELSE Rejected(StatusUnauthorized)

RequireAuth(m, r, t) ==
    IF r.header = EmptyString THEN Rejected(StatusUnauthorized)
    ELSE LET parts == Split(r.header)
         IN  IF Len(parts) # 2 \/ ToLower(parts[1]) # Bearer
             THEN Rejected(StatusUnauthorized)
             ELSE LET v == ValidateToken(m.jwtService, parts[2], t)
                  IN  IF ~v.ok THEN Rejected(StatusUnauthorized)
                      ELSE Passed(v.claims)

\* the token RequireAdmin works with: the bearer token of the Authorization
\* header, else the value of the admin_token cookie, else ""
AdminToken(r) ==
    LET parts == Split(r.header)
        fromHeader == IF /\ r.header # EmptyString
                         /\ Len(parts) = 2
                         /\ ToLower(parts[1]) = Bearer
                      THEN parts[2] ELSE EmptyString
    IN  IF fromHeader # EmptyString THEN fromHeader
        ELSE IF r.cookie.present THEN r.cookie.value
        ELSE EmptyString

RequireAdminOnlyAdmin(m, r, t) ==
    LET token == AdminToken(r)
    IN  IF token = EmptyString THEN Rejected(StatusFound)
        ELSE LET v == ValidateToken(m.jwtService, token, t)
             IN  IF ~v.ok THEN Rejected(StatusFound)
                 ELSE IF v.claims.AccountType # AccountTypeAdmin
                      THEN Rejected(StatusForbidden)
                      ELSE Passed(v.claims)

RequireAdmin(m, r, t) ==
    LET token == AdminToken(r)
    IN  IF token = EmptyString THEN Rejected(StatusFound)
        ELSE LET v == ValidateToken(m.jwtService, token, t)
             IN  IF ~v.ok THEN Rejected(StatusFound)
                 ELSE IF /\ v.claims.AccountType # AccountTypeAdmin
                         /\ v.claims.AccountType # AccountTypeSuperAdmin
                      THEN Rejected(StatusForbidden)
                      ELSE Passed(v.claims)

\* GetUserFromContext
HasUser(ctx) == ctx # NoClaims

RequireSuperAdmin(m, r, t) ==
    LET a == RequireAdmin(m, r, t)
    IN  IF ~a.next THEN a
        ELSE IF ~HasUser(a.ctx) THEN Rejected(StatusUnauthorized)
        ELSE IF a.ctx.AccountType # AccountTypeSuperAdmin
             THEN Rejected(StatusForbidden)
             ELSE Passed(a.ctx)

NewAuthMiddleware(jwtService) == [jwtService |-> jwtService]

IdleGate == [name |-> "none", status |-> 0, next |-> FALSE, ctx |-> NoClaims]

-----------------------------------------------------------------------------
(* domain/errors.go: an error is the chain of its messages, outermost first *)

NoError == <<>>

ErrNotFound == <<"not found">>

ErrDuplicateKey == <<"duplicate key">>

\* fmt.Errorf("msg: %w", err)
Wrap(msg, err) == <<msg>> \o err

RECURSIVE Error(_)
\* err.Error(): the messages of the chain joined by ": "; the text of a bare
\* error is its one message
Error(err) ==
    IF Len(err) <= 1 THEN err
    ELSE <<Head(err), ": ">> \o Error(Tail(err))

-----------------------------------------------------------------------------
(* domain/entities/user.go *)

NilUUID == 0

\* uuid.UUID.String
UUIDString(id) == [uuid |-> id]

\* entities.User{}
NoUser ==
    [ID |-> NilUUID, Email |-> "", AuthProvider |-> "", AuthProviderID |-> "",
     AccountType |-> "", CreatedAt |-> 0, UpdatedAt |-> 0]

-----------------------------------------------------------------------------
(* gateways/repository/pg: the users table and UserRepository *)

RowsWithEmail(st, email) == {r \in st : r.Email = email}

InsertErrorAnyRole(st, user) ==
    IF \E r \in st : r.ID = user.ID THEN <<"users_pkey">>
    ELSE IF \E r \in st : r.Email = user.Email THEN <<"users_email_key">>
    ELSE IF \E r \in st : /\ r.AuthProvider = user.AuthProvider
                          /\ r.AuthProviderID = user.AuthProviderID
         THEN <<"users_auth_provider_auth_provider_id_key">>
    ELSE NoError

\* what INSERT INTO users answers: account_type is the enum
\* ('user', 'admin', 'super_admin'), id is the primary key, email is UNIQUE
\* and so is (auth_provider, auth_provider_id)
InsertError(st, user) ==
    IF user.AccountType \notin AccountTypes
    THEN <<"invalid input value for enum account_type">>
    ELSE IF \E r \in st : r.ID = user.ID THEN <<"users_pkey">>
    ELSE IF \E r \in st : r.Email = user.Email THEN <<"users_email_key">>
    ELSE IF \E r \in st : /\ r.AuthProvider = user.AuthProvider
                          /\ r.AuthProviderID = user.AuthProviderID
         THEN <<"users_auth_provider_auth_provider_id_key">>
    ELSE NoError

\* dbOk: the database answers at all
UserRepositoryCreate(st, user, dbOk) ==
    LET e == IF dbOk THEN InsertError(st, user) ELSE <<"connection refused">>
    IN  IF e = NoError THEN [err |-> NoError, store |-> st \cup {user}]
        ELSE IF e = <<"users_email_key">>
             THEN [err |-> Wrap("user with email already exists", ErrDuplicateKey),
                   store |-> st]
             ELSE [err |-> Wrap("failed to create user", e), store |-> st]

UserRepositoryGetByEmail(st, email, dbOk) ==
    IF ~dbOk
    THEN [err |-> Wrap("failed to get user by email", <<"connection refused">>),
          user |-> NoUser]
    ELSE IF RowsWithEmail(st, email) = {} THEN [err |-> ErrNotFound, user |-> NoUser]
    ELSE [err |-> NoError, user |-> CHOOSE r \in RowsWithEmail(st, email) : TRUE]

UserRepositoryGetByID(st, id, dbOk) ==
    IF ~dbOk
    THEN [err |-> Wrap("failed to get user by ID", <<"connection refused">>),
          user |-> NoUser]
    ELSE IF \A r \in st : r.ID # id THEN [err |-> ErrNotFound, user |-> NoUser]
    ELSE [err |-> NoError, user |-> CHOOSE r \in st : r.ID = id]

\* what UPDATE users SET email, auth_provider, auth_provider_id, account_type,
\* updated_at WHERE id answers: the enum and the two UNIQUE constraints are
\* checked against the other rows; created_at is not set
UpdateError(st, user) ==
    IF user.AccountType \notin AccountTypes
    THEN <<"invalid input value for enum account_type">>
    ELSE IF \A r \in st : r.ID # user.ID THEN NoError
    ELSE IF \E r \in st : r.ID # user.ID /\ r.Email = user.Email
         THEN <<"users_email_key">>
    ELSE IF \E r \in st : /\ r.ID # user.ID
                          /\ r.AuthProvider = user.AuthProvider
                          /\ r.AuthProviderID = user.AuthProviderID
         THEN <<"users_auth_provider_auth_provider_id_key">>
    ELSE NoError

UserRepositoryUpdate(st, user, dbOk) ==
    LET e == IF dbOk THEN UpdateError(st, user) ELSE <<"connection refused">>
    IN  IF e # NoError THEN [err |-> Wrap("failed to update user", e), store |-> st]
        ELSE [err   |-> NoError,
              store |-> { IF r.ID = user.ID
                          THEN [user EXCEPT !.CreatedAt = r.CreatedAt]
                          ELSE r : r \in st }]

\* DELETE FROM users WHERE id: deleting no row is not an error
UserRepositoryDelete(st, id, dbOk) ==
    IF ~dbOk
    THEN [err |-> Wrap("failed to delete user", <<"connection refused">>), store |-> st]
    ELSE [err |-> NoError, store |-> {r \in st : r.ID # id}]

RECURSIVE NewestFirst(_)
\* ORDER BY created_at DESC (rows of one instant in the order of their ids)
NewestFirst(st) ==
    IF st = {} THEN <<>>
    ELSE LET r == CHOOSE x \in st :
                      \A y \in st : \/ x.CreatedAt > y.CreatedAt
                                    \/ x.CreatedAt = y.CreatedAt /\ x.ID >= y.ID
         IN  <<r>> \o NewestFirst(st \ {r})

\* SELECT ... ORDER BY created_at DESC LIMIT limit OFFSET offset: the
\* database refuses a negative LIMIT or OFFSET
UserRepositoryListUsers(st, limit, offset, dbOk) ==
    IF ~dbOk
    THEN [err |-> Wrap("failed to list users", <<"connection refused">>), users |-> <<>>]
    ELSE IF limit < 0
    THEN [err |-> Wrap("failed to list users", <<"LIMIT must not be negative">>),
          users |-> <<>>]
    ELSE IF offset < 0
    THEN [err |-> Wrap("failed to list users", <<"OFFSET must not be negative">>),
          users |-> <<>>]
    ELSE LET all == NewestFirst(st)
         IN  IF offset >= Len(all) THEN [err |-> NoError, users |-> <<>>]
             ELSE LET last == IF offset + limit < Len(all) THEN offset + limit
                              ELSE Len(all)
                  IN  [err |-> NoError, users |-> SubSeq(all, offset + 1, last)]

UserRepositoryCountUsers(st, dbOk) ==
    IF ~dbOk
    THEN [err |-> Wrap("failed to count users", <<"connection refused">>), count |-> 0]
    ELSE [err |-> NoError, count |-> Cardinality(st)]

-----------------------------------------------------------------------------
(* gateways/auth/supabase and domain/auth/factory.go *)

\* SupabaseProvider.Provider
ProviderName == "supabase"

\* ProviderFactory.CreateProvider: only "supabase" is configured
CreateProviderError(providerName) ==
    IF providerName = ProviderName THEN NoError
    ELSE <<"no configuration found for provider">>

-----------------------------------------------------------------------------
(* domain/auth/usecase.go: UseCase.Login, one operator per stretch of code
   between two calls to a collaborator.  Each yields the next position, the
   user variable and the return value. *)

NotReturned == [returned |-> FALSE, err |-> NoError, token |-> EmptyString, user |-> NoUser]

Failed(err) == [returned |-> TRUE, err |-> err, token |-> EmptyString, user |-> NoUser]

\* lines 120-132: mint the token and return it with the user
LoginReturn(s, user, t, jti) ==
    [returned |-> TRUE,
     err      |-> NoError,
     token    |-> GenerateToken(s, UUIDString(user.ID), user.Email, user.AccountType, t, jti),
     user     |-> user]

LoginAfterProviderIgnoresError(res) ==
    [pc |-> "Login.GetByEmail", out |-> NotReturned]

\* lines 89-93: res is what authProvider.Login answered
LoginAfterProvider(res) ==
    IF res.err # NoError
    THEN [pc |-> "done", out |-> Failed(Wrap("authentication failed", res.err))]
    ELSE [pc |-> "Login.GetByEmail", out |-> NotReturned]

LoginAfterGetByEmailCreatesOnAnyError(s, email, authProviderID, got, id, t, jti) ==
    IF got.err # NoError
    THEN [pc   |-> "Login.Create",
          user |-> [ID |-> id, Email |-> email, AuthProvider |-> ProviderName,
                    AuthProviderID |-> authProviderID, AccountType |-> "",
                    CreatedAt |-> t, UpdatedAt |-> t],
          out  |-> NotReturned]
    ELSE [pc |-> "done", user |-> got.user, out |-> LoginReturn(s, got.user, t, jti)]

LoginAfterGetByEmailMintsRoleUser(s, email, authProviderID, got, id, t, jti) ==
    IF got.err # NoError
    THEN IF got.err = ErrNotFound
         THEN [pc   |-> "Login.Create",
               user |-> [ID |-> id, Email |-> email, AuthProvider |-> ProviderName,
                         AuthProviderID |-> authProviderID, AccountType |-> "",
                         CreatedAt |-> t, UpdatedAt |-> t],
               out  |-> NotReturned]
         ELSE [pc |-> "done", user |-> got.user,
               out |-> Failed(Wrap("failed to get user", got.err))]
    ELSE [pc |-> "done", user |-> got.user,
          out |-> LoginReturn(s, [got.user EXCEPT !.AccountType = AccountTypeUser], t, jti)]

\* lines 96-118: got is what repo.GetByEmail answered, id the fresh uuid
LoginAfterGetByEmail(s, email, authProviderID, got, id, t, jti) ==
    IF got.err # NoError
    THEN IF got.err = ErrNotFound
         THEN [pc   |-> "Login.Create",
               user |-> [ID |-> id, Email |-> email, AuthProvider |-> ProviderName,
                         AuthProviderID |-> authProviderID, AccountType |-> "",
                         CreatedAt |-> t, UpdatedAt |-> t],
               out  |-> NotReturned]
         ELSE [pc |-> "done", user |-> got.user,
               out |-> Failed(Wrap("failed to get user", got.err))]
    ELSE [pc |-> "done", user |-> got.user, out |-> LoginReturn(s, got.user, t, jti)]

\* lines 110-132: err is what repo.Create answered
LoginAfterCreate(s, user, err, t, jti) ==
    IF err # NoError
    THEN [pc |-> "done", out |-> Failed(Wrap("failed to create user", err))]
    ELSE [pc |-> "done", out |-> LoginReturn(s, user, t, jti)]

-----------------------------------------------------------------------------
(* domain/auth/usecase.go: UseCase.Register *)

RegisterAfterProviderIgnoresError(email, res, id, t) ==
    [pc   |-> "Register.Create",
     user |-> [ID |-> id, Email |-> email, AuthProvider |-> ProviderName,
               AuthProviderID |-> res.id, AccountType |-> "",
               CreatedAt |-> t, UpdatedAt |-> t],
     out  |-> NotReturned]

\* lines 48-63: res is what authProvider.RegisterUser answered, id the fresh
\* uuid; the user literal sets no AccountType
RegisterAfterProvider(email, res, id, t) ==
    IF res.err # NoError
    THEN [pc |-> "done", user |-> NoUser,
          out |-> Failed(Wrap("registration failed", res.err))]
    ELSE [pc   |-> "Register.Create",
          user |-> [ID |-> id, Email |-> email, AuthProvider |-> ProviderName,
                    AuthProviderID |-> res.id, AccountType |-> "",
                    CreatedAt |-> t, UpdatedAt |-> t],
          out  |-> NotReturned]

\* lines 65-82: err is what repo.Create answered
RegisterAfterCreate(s, user, err, t, jti) ==
    IF err # NoError
    THEN [pc |-> "done", out |-> Failed(Wrap("failed to create user", err))]
    ELSE [pc |-> "done", out |-> LoginReturn(s, user, t, jti)]

-----------------------------------------------------------------------------
(* domain/user/usecase.go: UseCase.CreateUser *)

\* lines 129-152: the defaults, the provider instance and provider.RegisterUser;
\* res is what RegisterUser answered, id the fresh uuid
CreateUserAfterRegister(email, authProvider, accountType, defaultProvider, res, id, t) ==
    LET prov == IF authProvider = "" THEN defaultProvider ELSE authProvider
        role == IF accountType = "" THEN AccountTypeUser ELSE accountType
    IN  IF CreateProviderError(prov) # NoError
        THEN [pc |-> "done", user |-> NoUser, registered |-> FALSE,
              out |-> Failed(Wrap("unsupported auth provider", CreateProviderError(prov)))]
        ELSE IF res.err # NoError
        THEN [pc |-> "done", user |-> NoUser, registered |-> FALSE,
              out |-> Failed(Wrap("failed to register with provider", res.err))]
        ELSE [pc   |-> "CreateUser.Create",
              user |-> [ID |-> id, Email |-> email, AuthProvider |-> prov,
                        AuthProviderID |-> res.id, AccountType |-> role,
                        CreatedAt |-> t, UpdatedAt |-> t],
              registered |-> TRUE,
              out  |-> NotReturned]

CreateUserAfterCreateIgnoresError(user, err) ==
    [pc |-> "done",
     out |-> [returned |-> TRUE, err |-> NoError, token |-> EmptyString, user |-> user]]

\* lines 167-174: err is what repo.Create answered
CreateUserAfterCreate(user, err) ==
    IF err # NoError
    THEN [pc |-> "done", out |-> Failed(Wrap("failed to create user locally", err))]
    ELSE [pc |-> "done",
          out |-> [returned |-> TRUE, err |-> NoError, token |-> EmptyString, user |-> user]]

-----------------------------------------------------------------------------
(* domain/user/usecase.go: UseCase.ListUsers, UseCase.UpdateUser and
   UseCase.DeleteUser *)

Half == 2^16

\* int32(a * b) for 0 <= a < 2^31 and 0 <= b <= 100: the product is formed in
\* the 64 bits of int and the conversion keeps its low 32 bits, computed here
\* on 16-bit halves
Int32OfProduct(a, b) ==
    LET al == a % Half
        ah == a \div Half
        lo == (al * b) % Half
        carry == (al * b) \div Half
        hi == (ah * b + carry) % Half
    IN  IF hi >= Half \div 2 THEN (hi - Half) * Half + lo ELSE hi * Half + lo

ListUsersParamsClampsToMax(page, pageSize) ==
    LET pg == IF page < 1 THEN 1 ELSE page
        ps == IF pageSize < 1 THEN 20 ELSE IF pageSize > 100 THEN 100 ELSE pageSize
    IN  [Limit |-> ps, Offset |-> Int32OfProduct(pg - 1, ps)]

\* lines 44-57: entities.ListUsersParams as handed to repo.ListUsers
ListUsersParams(page, pageSize) ==
    LET pg == IF page < 1 THEN 1 ELSE page
        ps == IF pageSize < 1 \/ pageSize > 100 THEN 20 ELSE pageSize
    IN  [Limit |-> ps, Offset |-> Int32OfProduct(pg - 1, ps)]

\* lines 58-61: listed is what repo.ListUsers answered
ListUsersAfterListUsers(listed) ==
    IF listed.err # NoError
    THEN [pc |-> "done", out |-> Failed(listed.err)]
    ELSE [pc |-> "ListUsers.CountUsers", out |-> NotReturned]

Returned == [returned |-> TRUE, err |-> NoError, token |-> EmptyString, user |-> NoUser]

\* lines 63-69: counted is what repo.CountUsers answered
ListUsersAfterCountUsers(users, counted) ==
    IF counted.err # NoError
    THEN [out |-> Failed(counted.err), users |-> <<>>, total |-> 0]
    ELSE [out |-> Returned, users |-> users, total |-> counted.count]

\* a test of the first len(substr) bytes only
containsPrefixOnly(s, substr) ==
    Len(s) >= Len(substr) /\ SubSeq(s, 1, Len(substr)) = substr

RECURSIVE contains(_, _)
\* lines 212-220: s[0:len(substr)] is SubSeq(s, 1, Len(substr)) and s[1:] is
\* Tail(s)
contains(s, substr) ==
    /\ Len(s) >= Len(substr)
    /\ \/ s = substr
       \/ SubSeq(s, 1, Len(substr)) = substr
       \/ Len(s) > Len(substr) /\ contains(Tail(s), substr)

\* lines 196-209: the loop over the accounts uc.ListUsers returned
SearchUsersFilter(users, search, accountType) ==
    SelectSeq(users,
              LAMBDA user :
                  /\ ~(search # EmptyString /\ ~contains(user.Email, search))
                  /\ ~(accountType # "" /\ user.AccountType # accountType))

\* lines 187-190 and 210: listed is what uc.ListUsers returned
SearchUsersAfterListUsers(listed, search, accountType) ==
    IF listed.out.err # NoError
    THEN [out |-> listed.out, users |-> <<>>, total |-> 0]
    ELSE LET filteredUsers == SearchUsersFilter(listed.users, search, accountType)
         IN  [out |-> Returned, users |-> filteredUsers, total |-> Len(filteredUsers)]

\* lines 72-80
UpdateUserAfterUpdate(err) ==
    IF err # NoError THEN Failed(err) ELSE Returned

DeleteUserAfterGetByIDIgnoresError(got) ==
    IF got.user.AuthProvider # "" /\ got.user.AuthProviderID # ""
    THEN [pc |-> "DeleteUser.Provider", out |-> NotReturned]
    ELSE [pc |-> "DeleteUser.Delete", out |-> NotReturned]

\* lines 84-91: got is what repo.GetByID answered
DeleteUserAfterGetByID(got) ==
    IF got.err # NoError THEN [pc |-> "done", out |-> Failed(got.err)]
    ELSE IF got.user.AuthProvider # "" /\ got.user.AuthProviderID # ""
    THEN [pc |-> "DeleteUser.Provider", out |-> NotReturned]
    ELSE [pc |-> "DeleteUser.Delete", out |-> NotReturned]

\* lines 92-103: the calls made to delete the credential upstream;
\* provider.DeleteUser is called only with a provider instance, and neither
\* failure is returned
DeleteUserProviderCalls(user) ==
    <<[fn |-> "CreateProvider", providerName |-> user.AuthProvider]>>
    \o IF CreateProviderError(user.AuthProvider) # NoError THEN <<>>
       ELSE <<[fn |-> "Provider.DeleteUser", authProviderID |-> user.AuthProviderID]>>

\* lines 107-114: err is what repo.Delete answered
DeleteUserAfterDelete(err) ==
    IF err # NoError THEN Failed(err) ELSE Returned

-----------------------------------------------------------------------------
(* app/api/v1/auth/auth.go: AuthHandler.Register *)

StatusCreated == 201
StatusBadRequest == 400
StatusConflict == 409
StatusInternalServerError == 500

NoResponse == [status |-> 0, error |-> "", token |-> EmptyString, user |-> NoUser]

ErrorResponse(status, msg) ==
    [status |-> status, error |-> msg, token |-> EmptyString, user |-> NoUser]

\* the request bodies a client may post: one that is not JSON, one that fails
\* validation (password shorter than six characters), one that passes
RegisterBodies == {"not json", "short password", "well formed"}

\* lines 32-47: render.DecodeJSON and validator.Struct
AuthHandlerRegisterDecode(body) ==
    IF body = "not json" THEN ErrorResponse(StatusBadRequest, "invalid request body")
    ELSE IF body = "short password"
         THEN ErrorResponse(StatusBadRequest, "validation failed")
    ELSE NoResponse

\* lines 50-85: res is what userUC.CreateUser returned
AuthHandlerRegisterRespond(s, res, t, jti) ==
    IF res.err # NoError
    THEN IF Error(res.err) = <<"duplicate key">>
         THEN ErrorResponse(StatusConflict, "user already exists")
         ELSE ErrorResponse(StatusInternalServerError, "registration failed")
    ELSE [status |-> StatusCreated,
          error  |-> "",
          token  |-> GenerateToken(s, UUIDString(res.user.ID), res.user.Email,
                                   res.user.AccountType, t, jti),
          user   |-> res.user]

-----------------------------------------------------------------------------
(* app/api/v1/admin/admin.go: AdminHandler.DeleteUser and
   AdminHandler.UpdateUser *)

StatusOK == 200
StatusNotFound == 404

\* the texts a client may put in the {id} of the path: a uuid in canonical
\* form, the same uuid in braces, or something that is no uuid
CanonicalID(id) == UUIDString(id)

BracedID(id) == [uuid |-> id, braces |-> TRUE]

NotAnID == [junk |-> TRUE]

\* uuid.FromString: every accepted form of a uuid parses to the same value
FromString(text) ==
    IF "uuid" \in DOMAIN text THEN [err |-> NoError, id |-> text.uuid]
    ELSE [err |-> <<"uuid: incorrect UUID format">>, id |-> NilUUID]

AdminHandlerDeleteUserCheckComparesPath(ctx, userIDStr) ==
    IF FromString(userIDStr).err # NoError
    THEN ErrorResponse(StatusBadRequest, "invalid user ID format")
    ELSE IF HasUser(ctx) /\ ctx.UserID = userIDStr
    THEN ErrorResponse(StatusBadRequest, "cannot delete your own account")
    ELSE NoResponse

\* lines 366-384: the id of the path is parsed and compared, in canonical
\* form, with the UserID of the claims in the request context
AdminHandlerDeleteUserCheck(ctx, userIDStr) ==
    IF FromString(userIDStr).err # NoError
    THEN ErrorResponse(StatusBadRequest, "invalid user ID format")
    ELSE IF HasUser(ctx) /\ ctx.UserID = UUIDString(FromString(userIDStr).id)
    THEN ErrorResponse(StatusBadRequest, "cannot delete your own account")
    ELSE NoResponse

\* lines 386-397: res is what userUC.DeleteUser returned
AdminHandlerDeleteUserRespond(res) ==
    IF res.err # NoError
    THEN ErrorResponse(StatusInternalServerError, "failed to delete user")
    ELSE [NoResponse EXCEPT !.status = StatusOK]

\* the bodies a client may put: no JSON, or the fields of UpdateUserRequest
NotJSON == [junk |-> TRUE]

UpdateUserRequests ==
    [Email : {"", "no-email", "a@b.com", "new@x.com"},
     AccountType : {"", AccountTypeUser, AccountTypeSuperAdmin, "root"}]

\* validate:"email" on Email and validate:"required" on AccountType
ValidUpdateUserRequest(body) ==
    /\ body.Email \notin {"", "no-email"}
    /\ body.AccountType # ""

\* lines 309-334
AdminHandlerUpdateUserDecode(userIDStr, body) ==
    IF FromString(userIDStr).err # NoError
    THEN ErrorResponse(StatusBadRequest, "invalid user ID format")
    ELSE IF body = NotJSON THEN ErrorResponse(StatusBadRequest, "invalid request body")
    ELSE IF ~ValidUpdateUserRequest(body)
         THEN ErrorResponse(StatusBadRequest, "validation failed")
    ELSE NoResponse

\* lines 337-351: got is what userUC.GetUserByID returned, t is time.Now()
AdminHandlerUpdateUserAfterGet(got, body, t) ==
    IF got.err # NoError
    THEN [pc |-> "done", user |-> NoUser,
          resp |-> ErrorResponse(StatusNotFound, "user not found")]
    ELSE [pc   |-> "UpdateUser.Update",
          user |-> [got.user EXCEPT !.Email = IF body.Email # "" THEN body.Email ELSE @,
                                    !.AccountType = body.AccountType,
                                    !.UpdatedAt = t],
          resp |-> NoResponse]

\* lines 353-363: res is what userUC.UpdateUser returned
AdminHandlerUpdateUserRespond(res, user) ==
    IF res.err # NoError
    THEN ErrorResponse(StatusInternalServerError, "failed to update user")
    ELSE [NoResponse EXCEPT !.status = StatusOK, !.user = user]

-----------------------------------------------------------------------------
(* app/api/v1/admin/admin.go: AdminHandler.AdminLogin *)

\* the request bodies a client may post: one that is not JSON, one that fails
\* validation (no password), one that passes
AdminLoginBodies == {"not json", "no password", "well formed"}

\* lines 58-73: render.DecodeJSON and validator.Struct
AdminHandlerAdminLoginDecode(body) ==
    IF body = "not json" THEN ErrorResponse(StatusBadRequest, "invalid request body")
    ELSE IF body = "no password"
         THEN ErrorResponse(StatusBadRequest, "validation failed")
    ELSE NoResponse

AdminHandlerAdminLoginRespondAnyRole(s, res, t) ==
    IF res.err # NoError
    THEN ErrorResponse(StatusUnauthorized, "authentication failed")
    ELSE IF ~ValidateToken(s, res.token, t).ok
    THEN ErrorResponse(StatusInternalServerError, "failed to parse token")
    ELSE [status |-> StatusOK, error |-> "", token |-> res.token, user |-> res.user]

\* lines 80-116: res is what authUC.Login returned, t is time.Now()
AdminHandlerAdminLoginRespond(s, res, t) ==
    IF res.err # NoError
    THEN ErrorResponse(StatusUnauthorized, "authentication failed")
    ELSE IF /\ res.user.AccountType # AccountTypeAdmin
            /\ res.user.AccountType # AccountTypeSuperAdmin
    THEN ErrorResponse(StatusForbidden, "access denied: admin privileges required")
    ELSE IF ~ValidateToken(s, res.token, t).ok
    THEN ErrorResponse(StatusInternalServerError, "failed to parse token")
    ELSE [status |-> StatusOK, error |-> "", token |-> res.token, user |-> res.user]

-----------------------------------------------------------------------------
(* gateways/web/client.go *)

\* the fields of Client a request can change; baseURL and httpClient are set
\* once by NewClient
NewClient == [authToken |-> EmptyString]

SetAuthToken(c, token) == [c EXCEPT !.authToken = token]

\* the Authorization header doRequest puts on the request it sends
AuthorizationHeader(c, requireAuth) ==
    IF requireAuth /\ c.authToken # EmptyString
    THEN Chars(<<"B", "e", "a", "r", "e", "r", " ">>) \o c.authToken
    ELSE EmptyString

\* what doRequest makes of the upstream's answer: an error when the request
\* could not be executed or the status is 400 or more
DoRequestFailed(sent, status) == ~sent \/ status >= StatusBadRequest

-----------------------------------------------------------------------------
(* The API endpoints the browser surfaces verify a session with *)

BearerPrefix == Chars(<<"B", "e", "a", "r", "e", "r", " ">>)

\* app/api/v1/admin/admin.go: AdminHandler.VerifyAdminToken, the status written
VerifyAdminToken(s, authHeader, t) ==
    IF authHeader = EmptyString THEN StatusUnauthorized
    ELSE IF Len(authHeader) < 7 \/ SubSeq(authHeader, 1, 7) # BearerPrefix
    THEN StatusUnauthorized
    ELSE LET v == ValidateToken(s, SubSeq(authHeader, 8, Len(authHeader)), t)
         IN  IF ~v.ok THEN StatusUnauthorized
             ELSE IF /\ v.claims.AccountType # AccountTypeAdmin
                     /\ v.claims.AccountType # AccountTypeSuperAdmin
             THEN StatusForbidden
             ELSE StatusOK

\* app/api/v1/auth/auth.go: AuthHandler.GetMe behind the bearer gate
GetMe(s, st, authHeader, t) ==
    LET a == RequireAuth(NewAuthMiddleware(s),
                         [header |-> authHeader, cookie |-> NoCookie], t)
    IN  IF ~HasUser(a.ctx) THEN [status |-> StatusUnauthorized, user |-> NoUser]
        ELSE LET got == UserRepositoryGetByID(st, FromString(a.ctx.UserID).id, TRUE)
             IN  IF got.err # NoError
                 THEN [status |-> StatusNotFound, user |-> NoUser]
                 ELSE [status |-> StatusOK, user |-> got.user]

-----------------------------------------------------------------------------
(* app/web/middleware.go and app/admin/middleware.go: the session gates *)

\* the cookies of a request: "" for a cookie the request does not carry
\* (EmptyID is the "" of the texts that spell a uuid)
EmptyID == [empty |-> TRUE]

NoCookies ==
    [token |-> EmptyString, userID |-> EmptyID, userEmail |-> "", accountType |-> ""]

\* no user in the request context
NoContextUser == [none |-> TRUE]

\* what a session gate leaves behind: the redirect it wrote (0 when it wrote
\* none), how often it called the wrapped handler, the user it put in the
\* request context, and whether it cleared the auth cookies
GateRedirected(cleared) ==
    [status |-> StatusFound, served |-> 0, user |-> NoContextUser, cleared |-> cleared]

GateServed(user, cleared) ==
    [status |-> 0, served |-> 1, user |-> user, cleared |-> cleared]

NoGate == [status |-> 0, served |-> 0, user |-> NoContextUser, cleared |-> FALSE]

\* the user the admin surface builds from the request's cookies
UserFromCookies(r) ==
    [NoUser EXCEPT
       !.ID = IF r.userID # EmptyID /\ FromString(r.userID).err = NoError
              THEN FromString(r.userID).id ELSE NilUUID,
       !.Email = r.userEmail,
       !.AccountType = r.accountType]

\* app/web: the gates after m.client.GetCurrentUser() returned (user, failed)
WebRequireAuthAfterGetCurrentUser(failed, user) ==
    IF failed THEN GateRedirected(TRUE) ELSE GateServed(user, FALSE)

WebOptionalAuthAfterGetCurrentUser(failed, user) ==
    IF ~failed /\ user # NoContextUser THEN GateServed(user, FALSE)
    ELSE GateServed(NoContextUser, TRUE)

\* app/admin: the gates after m.client.VerifyToken() returned
AdminRequireAuthAfterVerifyToken(r, failed) ==
    IF failed THEN GateRedirected(TRUE) ELSE GateServed(UserFromCookies(r), FALSE)

AdminOptionalAuthAfterVerifyToken(r, failed) ==
    IF ~failed THEN GateServed(UserFromCookies(r), FALSE)
    ELSE GateServed(NoContextUser, TRUE)

\* app/admin/middleware.go lines 97-118: user is GetUserFromContext(r) and
\* hxRequest whether the request has the header HX-Request: true
AdminRequireSuperAdmin(user, hxRequest) ==
    IF user = NoContextUser
    THEN [next |-> FALSE, resp |-> ErrorResponse(StatusFound, "/login")]
    ELSE IF user.AccountType # AccountTypeSuperAdmin
    THEN IF hxRequest
         THEN [next |-> FALSE,
               resp |-> ErrorResponse(StatusForbidden,
                                      "Access denied: super admin privileges required")]
         ELSE [next |-> FALSE,
               resp |-> ErrorResponse(StatusFound, "/dashboard?error=access_denied")]
    ELSE [next |-> TRUE, resp |-> NoResponse]

-----------------------------------------------------------------------------
(* Use-case calls in flight *)

MaxCalls == 2

Procs == 1..MaxCalls

NoLocals ==
    [op |-> "none", email |-> "", providerErr |-> NoError,
     authProviderID |-> "", user |-> NoUser,
     notFound |-> FALSE, outage |-> FALSE, rowsAtCreate |-> {},
     resp |-> NoResponse, input |-> [none |-> TRUE], users |-> <<>>, total |-> 0,
     gate |-> NoGate]

NoUseCases ==
    /\ store = {}
    /\ pc = [p \in Procs |-> "idle"]
    /\ loc = [p \in Procs |-> NoLocals]
    /\ out = [p \in Procs |-> NotReturned]
    /\ calls = [p \in Procs |-> <<>>]
    /\ nextId = 1
    /\ client = NewClient

-----------------------------------------------------------------------------
(* The token service driven by a client *)

ServiceNames == {"S1", "S2"}

SecretOf(k) == IF k = "S1" THEN "secret-1" ELSE "secret-2"

\* (accountID, email, role) triples handed to GenerateToken
TokenInputs ==
    { [userID |-> "id-1", email |-> "a@b.com", accountType |-> AccountTypeUser],
      [userID |-> "id-2", email |-> "c@d.com", accountType |-> AccountTypeAdmin] }

NoInputs == [userID |-> "", email |-> "", accountType |-> ""]

NoInfo == [kind |-> "none", by |-> "", at |-> 0, in |-> NoInputs]

IdleRes ==
    [op |-> "none", by |-> "", at |-> 0, input |-> EmptyString,
     ok |-> FALSE, token |-> EmptyString, claims |-> NoClaims, minted |-> FALSE]

\* strings no service has signed: junk, and a well-formed token whose header
\* names a method outside the HMAC family
ForgedStrings ==
    { Chars(<<"x", "y">>) }
    \cup { Encode([UserID |-> "id-2", Email |-> "c@d.com",
                   AccountType |-> AccountTypeSuperAdmin,
                   ExpiresAt |-> Epoch + Hour,
                   IssuedAt |-> Epoch,
                   NotBefore |-> Epoch,
                   Issuer |-> "supabase", Subject |-> "id-2", ID |-> 0,
                   alg |-> a, sig |-> SecretOf("S1")]) : a \in {"none", "RS256"} }

InitJwt ==
    /\ now = Epoch
    /\ \E e \in ExpiryConfigs :
          svc = [k \in ServiceNames |-> NewService(SecretOf(k), "supabase", e)]
    /\ held = EmptyString
    /\ heldInfo = NoInfo
    /\ jwtRes = IdleRes
    /\ nextJti = 1
    /\ advances = 0
    /\ req = NoRequest
    /\ gate = IdleGate
    /\ NoUseCases

AdvanceClock(d) ==
    /\ advances < MaxAdvances
    /\ now' = now + d
    /\ advances' = advances + 1
    /\ UNCHANGED <<svc, held, heldInfo, jwtRes, nextJti, gateVars, useCaseVars, webVars>>

GenerateTokenOp(k, in) ==
    /\ nextJti <= MaxJti
    /\ LET tok == GenerateToken(svc[k], in.userID, in.email, in.accountType, now, nextJti)
       IN  /\ held' = tok
           /\ heldInfo' = [kind |-> "generated", by |-> k, at |-> now, in |-> in]
           /\ jwtRes' = [op |-> "generate", by |-> k, at |-> now, input |-> EmptyString,
                         ok |-> TRUE, token |-> tok, claims |-> NoClaims, minted |-> TRUE]
    /\ nextJti' = nextJti + 1
    /\ UNCHANGED <<now, svc, advances, gateVars, useCaseVars, webVars>>

ValidateTokenOp(k) ==
    /\ held # EmptyString
    /\ LET v == ValidateToken(svc[k], held, now)
       IN  jwtRes' = [op |-> "validate", by |-> k, at |-> now, input |-> held,
                      ok |-> v.ok, token |-> EmptyString, claims |-> v.claims,
                      minted |-> FALSE]
    /\ UNCHANGED <<now, svc, held, heldInfo, nextJti, advances, gateVars, useCaseVars, webVars>>

RefreshTokenOp(k) ==
    /\ held # EmptyString
    /\ nextJti <= MaxJti
    /\ LET r == RefreshToken(svc[k], held, now, nextJti)
       IN  /\ jwtRes' = [op |-> "refresh", by |-> k, at |-> now, input |-> held,
                         ok |-> r.ok, token |-> r.token, claims |-> NoClaims,
                         minted |-> r.minted]
           /\ held' = IF r.ok THEN r.token ELSE held
           /\ heldInfo' = IF r.minted
                          THEN [heldInfo EXCEPT !.kind = "refreshed", !.by = k, !.at = now]
                          ELSE heldInfo
           /\ nextJti' = IF r.minted THEN nextJti + 1 ELSE nextJti
    /\ UNCHANGED <<now, svc, advances, gateVars, useCaseVars, webVars>>

ForgeTokenOp ==
    /\ \E s \in ForgedStrings :
          /\ held' = s
          /\ heldInfo' = [kind |-> "forged", by |-> "", at |-> now, in |-> NoInputs]
    /\ UNCHANGED <<now, svc, jwtRes, nextJti, advances, gateVars, useCaseVars, webVars>>

NextJwt ==
    \/ \E d \in ClockSteps : AdvanceClock(d)
    \/ \E k \in ServiceNames, in \in TokenInputs : GenerateTokenOp(k, in)
    \/ \E k \in ServiceNames : ValidateTokenOp(k)
    \/ \E k \in ServiceNames : RefreshTokenOp(k)
    \/ ForgeTokenOp

SpecJwt == InitJwt /\ [][NextJwt]_vars

-----------------------------------------------------------------------------
(* Requests arriving at the gates *)

GateNames == {"RequireAuth", "RequireAdmin", "RequireSuperAdmin"}

\* the instant the request arrives
GateTime == Epoch + 10 * Minute

\* token strings a client may present at time GateTime: fresh tokens of the
\* service for every role (the empty role included), a token of the service
\* that has expired, a token of another service, and junk
PresentedTokens ==
    { GenerateToken(NewService(SecretOf("S1"), "supabase", "5m"),
                    "id-1", "a@b.com", a, GateTime - Minute, 1)
        : a \in AccountTypes \cup {""} }
    \cup { GenerateToken(NewService(SecretOf("S1"), "supabase", "5m"),
                         "id-2", "c@d.com", AccountTypeSuperAdmin,
                         GateTime - 6 * Minute, 2),
           GenerateToken(NewService(SecretOf("S2"), "supabase", "5m"),
                         "id-2", "c@d.com", AccountTypeSuperAdmin,
                         GateTime - Minute, 3),
           Chars(<<"x", "y">>) }

Schemes ==
    { EmptyString,
      Chars(<<"B", "e", "a", "r", "e", "r">>),
      Chars(<<"b", "e", "a", "r", "e", "r">>),
      Chars(<<"B", "E", "A", "R", "E", "R">>),
      Chars(<<"B", "a", "s", "i", "c">>) }

Gaps == { EmptyString, <<Sp>>, <<Sp, Sp>> }

\* Authorization header values
Headers ==
    { sch \o g \o tok \o trail :
        sch \in Schemes, g \in Gaps,
        tok \in PresentedTokens \cup {EmptyString},
        trail \in {EmptyString, <<Sp>>} }

\* admin_token cookies
Cookies ==
    { NoCookie }
    \cup { [present |-> TRUE, value |-> v] : v \in PresentedTokens \cup {EmptyString} }

Requests == [header : Headers, cookie : Cookies]

InitGate ==
    /\ now = GateTime
    /\ svc = [k \in ServiceNames |-> NewService(SecretOf(k), "supabase", "5m")]
    /\ held = EmptyString
    /\ heldInfo = NoInfo
    /\ jwtRes = IdleRes
    /\ nextJti = 1
    /\ advances = 0
    /\ req \in Requests
    /\ gate = IdleGate
    /\ NoUseCases

Answer(name, res) ==
    [name |-> name, status |-> res.status, next |-> res.next, ctx |-> res.ctx]

RequireAuthOp ==
    /\ gate = IdleGate
    /\ gate' = Answer("RequireAuth", RequireAuth(NewAuthMiddleware(svc["S1"]), req, now))
    /\ UNCHANGED <<jwtVars, req, useCaseVars, webVars>>

RequireAdminOp ==
    /\ gate = IdleGate
    /\ gate' = Answer("RequireAdmin", RequireAdmin(NewAuthMiddleware(svc["S1"]), req, now))
    /\ UNCHANGED <<jwtVars, req, useCaseVars, webVars>>

RequireSuperAdminOp ==
    /\ gate = IdleGate
    /\ gate' = Answer("RequireSuperAdmin",
                      RequireSuperAdmin(NewAuthMiddleware(svc["S1"]), req, now))
    /\ UNCHANGED <<jwtVars, req, useCaseVars, webVars>>

NextGate ==
    \/ RequireAuthOp
    \/ RequireAdminOp
    \/ RequireSuperAdminOp

SpecGate == InitGate /\ [][NextGate]_vars

-----------------------------------------------------------------------------
(* Login and CreateUser calls running side by side against one store *)

Emails == {"a@b.com", "c@d.com"}

\* what the identity provider may answer to Login: a refusal or an access token
ProviderLoginResults ==
    { [err |-> <<"invalid login credentials">>, id |-> ""] }
    \cup { [err |-> NoError, id |-> x] : x \in {"access-1", "access-2"} }

\* the id the identity provider gives the credential of an email
CredentialOf(email) == IF email = "a@b.com" THEN "cred-a" ELSE "cred-c"

\* what the identity provider may answer to RegisterUser for an email: a
\* refusal or the id of the new credential
ProviderRegisterResults(email) ==
    { [err |-> <<"signup failed">>, id |-> ""],
      [err |-> NoError, id |-> CredentialOf(email)] }

\* the rows the table may hold when the calls start
InitialStores ==
    { {} }
    \cup { { [ID |-> 100, Email |-> "a@b.com", AuthProvider |-> ProviderName,
              AuthProviderID |-> CredentialOf("a@b.com"), AccountType |-> a,
              CreatedAt |-> Epoch, UpdatedAt |-> Epoch] } : a \in AccountTypes }

InitUseCases ==
    /\ now = Epoch + Minute
    /\ svc = [k \in ServiceNames |-> NewService(SecretOf(k), ProviderName, "bogus")]
    /\ held = EmptyString
    /\ heldInfo = NoInfo
    /\ jwtRes = IdleRes
    /\ nextJti = 1
    /\ advances = 0
    /\ req = NoRequest
    /\ gate = IdleGate
    /\ store \in InitialStores
    /\ pc = [p \in Procs |-> "idle"]
    /\ loc = [p \in Procs |-> NoLocals]
    /\ out = [p \in Procs |-> NotReturned]
    /\ calls = [p \in Procs |-> <<>>]
    /\ nextId = 1
    /\ client = NewClient

LoginCallProvider(p, email, res) ==
    /\ pc[p] = "idle"
    /\ LET n == LoginAfterProvider(res)
       IN  /\ pc' = [pc EXCEPT ![p] = n.pc]
           /\ out' = [out EXCEPT ![p] = n.out]
    /\ loc' = [loc EXCEPT ![p] = [NoLocals EXCEPT !.op = "Login", !.email = email,
                                                  !.providerErr = res.err,
                                                  !.authProviderID = res.id]]
    /\ UNCHANGED <<store, calls, nextId, jwtVars, gateVars, webVars>>

LoginGetByEmail(p, dbOk) ==
    /\ pc[p] = "Login.GetByEmail"
    /\ LET got == UserRepositoryGetByEmail(store, loc[p].email, dbOk)
           n == LoginAfterGetByEmail(svc["S1"], loc[p].email, loc[p].authProviderID,
                                     got, nextId, now, nextJti)
       IN  /\ pc' = [pc EXCEPT ![p] = n.pc]
           /\ out' = [out EXCEPT ![p] = n.out]
           /\ loc' = [loc EXCEPT ![p].user = n.user,
                                 ![p].notFound = (got.err = ErrNotFound),
                                 ![p].outage = ~dbOk]
           /\ nextId' = IF got.err = ErrNotFound THEN nextId + 1 ELSE nextId
           /\ nextJti' = IF n.out.token # EmptyString THEN nextJti + 1 ELSE nextJti
    /\ calls' = [calls EXCEPT ![p] = Append(@, [fn |-> "GetByEmail", email |-> loc[p].email])]
    /\ UNCHANGED <<store, now, svc, held, heldInfo, jwtRes, advances, gateVars, webVars>>

LoginCreate(p, dbOk) ==
    /\ pc[p] = "Login.Create"
    /\ LET made == UserRepositoryCreate(store, loc[p].user, dbOk)
           n == LoginAfterCreate(svc["S1"], loc[p].user, made.err, now, nextJti)
       IN  /\ store' = made.store
           /\ pc' = [pc EXCEPT ![p] = n.pc]
           /\ out' = [out EXCEPT ![p] = n.out]
           /\ nextJti' = IF n.out.token # EmptyString THEN nextJti + 1 ELSE nextJti
    /\ loc' = [loc EXCEPT ![p].outage = ~dbOk,
                          ![p].rowsAtCreate = RowsWithEmail(store, loc[p].email)]
    /\ calls' = [calls EXCEPT ![p] = Append(@, [fn |-> "Create", user |-> loc[p].user])]
    /\ UNCHANGED <<nextId, now, svc, held, heldInfo, jwtRes, advances, gateVars, webVars>>

RegisterCallProvider(p, email, res) ==
    /\ pc[p] = "idle"
    /\ LET n == RegisterAfterProvider(email, res, nextId, now)
       IN  /\ pc' = [pc EXCEPT ![p] = n.pc]
           /\ out' = [out EXCEPT ![p] = n.out]
           /\ loc' = [loc EXCEPT ![p] = [NoLocals EXCEPT !.op = "Register",
                                                         !.email = email,
                                                         !.providerErr = res.err,
                                                         !.authProviderID = res.id,
                                                         !.user = n.user]]
           /\ nextId' = IF n.pc = "Register.Create" THEN nextId + 1 ELSE nextId
    /\ UNCHANGED <<store, calls, jwtVars, gateVars, webVars>>

RegisterCreate(p, dbOk) ==
    /\ pc[p] = "Register.Create"
    /\ LET made == UserRepositoryCreate(store, loc[p].user, dbOk)
           n == RegisterAfterCreate(svc["S1"], loc[p].user, made.err, now, nextJti)
       IN  /\ store' = made.store
           /\ pc' = [pc EXCEPT ![p] = n.pc]
           /\ out' = [out EXCEPT ![p] = n.out]
           /\ nextJti' = IF n.out.token # EmptyString THEN nextJti + 1 ELSE nextJti
    /\ loc' = [loc EXCEPT ![p].outage = ~dbOk,
                          ![p].rowsAtCreate = RowsWithEmail(store, loc[p].email)]
    /\ calls' = [calls EXCEPT ![p] = Append(@, [fn |-> "Create", user |-> loc[p].user])]
    /\ UNCHANGED <<nextId, now, svc, held, heldInfo, jwtRes, advances, gateVars, webVars>>

CreateUserRegister(p, email, authProvider, accountType, res) ==
    /\ pc[p] = "idle"
    /\ LET n == CreateUserAfterRegister(email, authProvider, accountType, ProviderName,
                                        res, nextId, now)
           \* the provider is asked unless no provider of that name exists
           asked == CreateProviderError(IF authProvider = "" THEN ProviderName
                                        ELSE authProvider) = NoError
       IN  /\ pc' = [pc EXCEPT ![p] = n.pc]
           /\ out' = [out EXCEPT ![p] = n.out]
           /\ loc' = [loc EXCEPT ![p] =
                         [NoLocals EXCEPT !.op = "CreateUser",
                                          !.email = email,
                                          !.providerErr = IF asked THEN res.err ELSE NoError,
                                          !.authProviderID = IF asked THEN res.id ELSE "",
                                          !.user = n.user]]
           /\ nextId' = IF n.pc = "CreateUser.Create" THEN nextId + 1 ELSE nextId
    /\ UNCHANGED <<store, calls, jwtVars, gateVars, webVars>>

CreateUserCreate(p, dbOk) ==
    /\ pc[p] = "CreateUser.Create"
    /\ LET made == UserRepositoryCreate(store, loc[p].user, dbOk)
           n == CreateUserAfterCreate(loc[p].user, made.err)
       IN  /\ store' = made.store
           /\ pc' = [pc EXCEPT ![p] = n.pc]
           /\ out' = [out EXCEPT ![p] = n.out]
    /\ loc' = [loc EXCEPT ![p].outage = ~dbOk,
                          ![p].rowsAtCreate = RowsWithEmail(store, loc[p].email)]
    /\ calls' = [calls EXCEPT ![p] = Append(@, [fn |-> "Create", user |-> loc[p].user])]
    /\ UNCHANGED <<nextId, jwtVars, gateVars, webVars>>

\* POST /api/v1/auth/register up to the provider's answer: the handler decodes
\* and validates, then userUC.CreateUser runs with the default provider and
\* role user
AuthHandlerRegisterStart(p, body, email, res) ==
    /\ pc[p] = "idle"
    /\ LET bad == AuthHandlerRegisterDecode(body)
           n == CreateUserAfterRegister(email, "", AccountTypeUser, ProviderName,
                                        res, nextId, now)
           resp == IF bad # NoResponse THEN bad
                   ELSE IF n.out.returned
                        THEN AuthHandlerRegisterRespond(svc["S1"], n.out, now, nextJti)
                   ELSE NoResponse
           called == bad = NoResponse
       IN  /\ pc' = [pc EXCEPT ![p] = IF called THEN IF n.pc = "done" THEN "done"
                                                     ELSE "AuthHandler.Register.Create"
                                      ELSE "done"]
           /\ out' = [out EXCEPT ![p] = IF called THEN n.out ELSE NotReturned]
           /\ loc' = [loc EXCEPT ![p] =
                         [NoLocals EXCEPT !.op = "AuthHandler.Register",
                                          !.email = IF called THEN email ELSE "",
                                          !.providerErr = IF called THEN res.err ELSE NoError,
                                          !.authProviderID = IF called THEN res.id ELSE "",
                                          !.user = IF called THEN n.user ELSE NoUser,
                                          !.resp = resp]]
           /\ nextId' = IF called /\ n.pc # "done" THEN nextId + 1 ELSE nextId
    /\ UNCHANGED <<store, calls, jwtVars, gateVars, webVars>>

\* the rest of the request: repo.Create, CreateUser's return and the response
AuthHandlerRegisterCreate(p, dbOk) ==
    /\ pc[p] = "AuthHandler.Register.Create"
    /\ LET made == UserRepositoryCreate(store, loc[p].user, dbOk)
           n == CreateUserAfterCreate(loc[p].user, made.err)
           resp == AuthHandlerRegisterRespond(svc["S1"], n.out, now, nextJti)
       IN  /\ store' = made.store
           /\ pc' = [pc EXCEPT ![p] = n.pc]
           /\ out' = [out EXCEPT ![p] = n.out]
           /\ loc' = [loc EXCEPT ![p].outage = ~dbOk,
                                 ![p].rowsAtCreate = RowsWithEmail(store, loc[p].email),
                                 ![p].resp = resp]
           /\ nextJti' = IF resp.token # EmptyString THEN nextJti + 1 ELSE nextJti
    /\ calls' = [calls EXCEPT ![p] = Append(@, [fn |-> "Create", user |-> loc[p].user])]
    /\ UNCHANGED <<nextId, now, svc, held, heldInfo, jwtRes, advances, gateVars, webVars>>

NextUseCases ==
    \/ \E p \in Procs, e \in Emails, res \in ProviderLoginResults :
          LoginCallProvider(p, e, res)
    \/ \E p \in Procs, dbOk \in BOOLEAN : LoginGetByEmail(p, dbOk)
    \/ \E p \in Procs, dbOk \in BOOLEAN : LoginCreate(p, dbOk)
    \/ \E p \in Procs, e \in Emails, prov \in {"", "github"},
          a \in {"", AccountTypeAdmin} :
          \E res \in ProviderRegisterResults(e) :
              CreateUserRegister(p, e, prov, a, res)
    \/ \E p \in Procs, dbOk \in BOOLEAN : CreateUserCreate(p, dbOk)

SpecUseCases == InitUseCases /\ [][NextUseCases]_vars

\* registrations, through the use case and through POST /api/v1/auth/register,
\* interleaved with CreateUser calls on one store
NextRegister ==
    \/ \E p \in Procs, e \in Emails :
          \E res \in ProviderRegisterResults(e) : RegisterCallProvider(p, e, res)
    \/ \E p \in Procs, dbOk \in BOOLEAN : RegisterCreate(p, dbOk)
    \/ \E p \in Procs, e \in Emails, prov \in {"", "github"},
          a \in {"", AccountTypeAdmin} :
          \E res \in ProviderRegisterResults(e) :
              CreateUserRegister(p, e, prov, a, res)
    \/ \E p \in Procs, dbOk \in BOOLEAN : CreateUserCreate(p, dbOk)
    \/ \E p \in Procs, body \in RegisterBodies, e \in Emails :
          \E res \in ProviderRegisterResults(e) :
              AuthHandlerRegisterStart(p, body, e, res)
    \/ \E p \in Procs, dbOk \in BOOLEAN : AuthHandlerRegisterCreate(p, dbOk)

SpecRegister == InitUseCases /\ [][NextRegister]_vars

-----------------------------------------------------------------------------
(* Admin logins interleaved with CreateUser calls on one store *)

\* the token lifetimes the service may be configured with
AdminLoginExpiries == {"5m", "0s"}

\* what provider.Login may answer: a refusal, or the id of the credential
AdminLoginProviderResults == {r \in ProviderLoginResults : r.id # "access-2"}

InitAdminLogin ==
    /\ now = Epoch + Minute
    /\ \E e \in AdminLoginExpiries :
          svc = [k \in ServiceNames |-> NewService(SecretOf(k), ProviderName, e)]
    /\ held = EmptyString
    /\ heldInfo = NoInfo
    /\ jwtRes = IdleRes
    /\ nextJti = 1
    /\ advances = 0
    /\ req = NoRequest
    /\ gate = IdleGate
    /\ store \in InitialStores
    /\ pc = [p \in Procs |-> "idle"]
    /\ loc = [p \in Procs |-> NoLocals]
    /\ out = [p \in Procs |-> NotReturned]
    /\ calls = [p \in Procs |-> <<>>]
    /\ nextId = 1
    /\ client = NewClient

\* POST /admin/v1/auth/login up to the provider's answer: the handler decodes
\* and validates, then authUC.Login asks the provider
AdminLoginStart(p, body, email, res) ==
    /\ pc[p] = "idle"
    /\ LET bad == AdminHandlerAdminLoginDecode(body)
           called == bad = NoResponse
           n == LoginAfterProvider(res)
           resp == IF ~called THEN bad
                   ELSE IF n.out.returned
                        THEN AdminHandlerAdminLoginRespond(svc["S1"], n.out, now)
                   ELSE NoResponse
       IN  /\ pc' = [pc EXCEPT ![p] = IF called /\ n.pc # "done"
                                      THEN "AdminLogin.GetByEmail" ELSE "done"]
           /\ out' = [out EXCEPT ![p] = IF called THEN n.out ELSE NotReturned]
           /\ loc' = [loc EXCEPT ![p] =
                         [NoLocals EXCEPT !.op = "AdminLogin",
                                          !.email = IF called THEN email ELSE "",
                                          !.providerErr = IF called THEN res.err ELSE NoError,
                                          !.authProviderID = IF called THEN res.id ELSE "",
                                          !.input = [body |-> body],
                                          !.resp = resp]]
    /\ UNCHANGED <<store, calls, nextId, jwtVars, gateVars, webVars>>

\* repo.GetByEmail of the Login and, unless the account is to be created, the
\* rest of the request
AdminLoginGetByEmail(p, dbOk) ==
    /\ pc[p] = "AdminLogin.GetByEmail"
    /\ LET got == UserRepositoryGetByEmail(store, loc[p].email, dbOk)
           n == LoginAfterGetByEmail(svc["S1"], loc[p].email, loc[p].authProviderID,
                                     got, nextId, now, nextJti)
       IN  /\ pc' = [pc EXCEPT ![p] = IF n.pc = "done" THEN "done" ELSE "AdminLogin.Create"]
           /\ out' = [out EXCEPT ![p] = n.out]
           /\ loc' = [loc EXCEPT ![p].user = n.user,
                                 ![p].notFound = (got.err = ErrNotFound),
                                 ![p].outage = ~dbOk,
                                 ![p].resp = IF n.pc = "done"
                                             THEN AdminHandlerAdminLoginRespond(svc["S1"], n.out, now)
                                             ELSE NoResponse]
           /\ nextId' = IF got.err = ErrNotFound THEN nextId + 1 ELSE nextId
           /\ nextJti' = IF n.out.token # EmptyString THEN nextJti + 1 ELSE nextJti
    /\ calls' = [calls EXCEPT ![p] = Append(@, [fn |-> "GetByEmail", email |-> loc[p].email])]
    /\ UNCHANGED <<store, now, svc, held, heldInfo, jwtRes, advances, gateVars, webVars>>

\* repo.Create of the Login and the rest of the request
AdminLoginCreate(p, dbOk) ==
    /\ pc[p] = "AdminLogin.Create"
    /\ LET made == UserRepositoryCreate(store, loc[p].user, dbOk)
           n == LoginAfterCreate(svc["S1"], loc[p].user, made.err, now, nextJti)
       IN  /\ store' = made.store
           /\ pc' = [pc EXCEPT ![p] = "done"]
           /\ out' = [out EXCEPT ![p] = n.out]
           /\ loc' = [loc EXCEPT ![p].outage = ~dbOk,
                                 ![p].rowsAtCreate = RowsWithEmail(store, loc[p].email),
                                 ![p].resp = AdminHandlerAdminLoginRespond(svc["S1"], n.out, now)]
           /\ nextJti' = IF n.out.token # EmptyString THEN nextJti + 1 ELSE nextJti
    /\ calls' = [calls EXCEPT ![p] = Append(@, [fn |-> "Create", user |-> loc[p].user])]
    /\ UNCHANGED <<nextId, now, svc, held, heldInfo, jwtRes, advances, gateVars, webVars>>

NextAdminLogin ==
    \/ \E p \in Procs, body \in AdminLoginBodies, e \in Emails,
          res \in AdminLoginProviderResults : AdminLoginStart(p, body, e, res)
    \/ \E p \in Procs, dbOk \in BOOLEAN : AdminLoginGetByEmail(p, dbOk)
    \/ \E p \in Procs, dbOk \in BOOLEAN : AdminLoginCreate(p, dbOk)
    \/ \E p \in Procs, e \in Emails, a \in {"", AccountTypeAdmin} :
          \E res \in ProviderRegisterResults(e) : CreateUserRegister(p, e, "", a, res)
    \/ \E p \in Procs, dbOk \in BOOLEAN : CreateUserCreate(p, dbOk)

SpecAdminLogin == InitAdminLogin /\ [][NextAdminLogin]_vars

-----------------------------------------------------------------------------
(* Administrative requests, served one after the other on one store *)

\* the table when the requests start: an administrator, a user, and a row
\* whose provider is not among the configured ones
AdminRows ==
    { [ID |-> 100, Email |-> "a@b.com", AuthProvider |-> ProviderName,
       AuthProviderID |-> CredentialOf("a@b.com"), AccountType |-> AccountTypeAdmin,
       CreatedAt |-> Epoch, UpdatedAt |-> Epoch],
      [ID |-> 101, Email |-> "c@d.com", AuthProvider |-> ProviderName,
       AuthProviderID |-> CredentialOf("c@d.com"), AccountType |-> AccountTypeUser,
       CreatedAt |-> Epoch + Second, UpdatedAt |-> Epoch + Second],
      [ID |-> 102, Email |-> "e@f.com", AuthProvider |-> "github",
       AuthProviderID |-> "gh-1", AccountType |-> AccountTypeUser,
       CreatedAt |-> Epoch + 2 * Second, UpdatedAt |-> Epoch + 2 * Second] }

\* ids a path may name: the three rows and one that is in no row
PathIDs == {100, 101, 102, 103}

DeletePaths == {CanonicalID(id) : id \in PathIDs} \cup {BracedID(id) : id \in PathIDs}
               \cup {NotAnID}

UpdatePaths == {CanonicalID(101), CanonicalID(103), NotAnID}

\* the claims RequireAdmin leaves in the context for the administrator of
\* row 100, and the context of a request that passed no gate
AdminContexts ==
    { NoClaims,
      ValidateToken(NewService(SecretOf("S1"), ProviderName, "bogus"),
                    GenerateToken(NewService(SecretOf("S1"), ProviderName, "bogus"),
                                  UUIDString(100), "a@b.com", AccountTypeAdmin,
                                  Epoch + Minute, 0),
                    Epoch + Minute).claims }

\* what provider.DeleteUser may answer
ProviderDeleteResults == {NoError, <<"upstream refused">>}

Pages == {-1, 0, 1, 2, 21474837, 2147483647}

PageSizes == {-5, 0, 1, 20, 100, 101, 500}

InitAdmin ==
    /\ now = Epoch + Minute
    /\ svc = [k \in ServiceNames |-> NewService(SecretOf(k), ProviderName, "bogus")]
    /\ held = EmptyString
    /\ heldInfo = NoInfo
    /\ jwtRes = IdleRes
    /\ nextJti = 1
    /\ advances = 0
    /\ req = NoRequest
    /\ gate = IdleGate
    /\ store = AdminRows
    /\ pc = [p \in Procs |-> "idle"]
    /\ loc = [p \in Procs |-> NoLocals]
    /\ out = [p \in Procs |-> NotReturned]
    /\ calls = [p \in Procs |-> <<>>]
    /\ nextId = 1
    /\ client = NewClient

NoRequestInFlight == \A q \in Procs : pc[q] = "idle"

\* DELETE /admin/v1/users/{id} up to the call of userUC.DeleteUser
DeleteUserStart(p, ctx, userIDStr) ==
    /\ NoRequestInFlight
    /\ LET bad == AdminHandlerDeleteUserCheck(ctx, userIDStr)
       IN  /\ pc' = [pc EXCEPT ![p] = IF bad # NoResponse THEN "done"
                                      ELSE "DeleteUser.GetByID"]
           /\ loc' = [loc EXCEPT ![p] =
                         [NoLocals EXCEPT !.op = "DeleteUser",
                                          !.input = [ctx |-> ctx, userIDStr |-> userIDStr],
                                          !.resp = bad]]
    /\ UNCHANGED <<store, out, calls, nextId, jwtVars, gateVars, webVars>>

DeleteUserGetByID(p, dbOk) ==
    /\ pc[p] = "DeleteUser.GetByID"
    /\ LET userID == FromString(loc[p].input.userIDStr).id
           got == UserRepositoryGetByID(store, userID, dbOk)
           n == DeleteUserAfterGetByID(got)
       IN  /\ pc' = [pc EXCEPT ![p] = n.pc]
           /\ out' = [out EXCEPT ![p] = n.out]
           /\ loc' = [loc EXCEPT ![p].user = got.user,
                                 ![p].notFound = (got.err = ErrNotFound),
                                 ![p].outage = ~dbOk,
                                 ![p].resp = IF n.pc = "done"
                                             THEN AdminHandlerDeleteUserRespond(n.out)
                                             ELSE NoResponse]
           /\ calls' = [calls EXCEPT ![p] = Append(@, [fn |-> "GetByID", id |-> userID])]
    /\ UNCHANGED <<store, nextId, jwtVars, gateVars, webVars>>

\* res is what provider.DeleteUser answers when it is called
DeleteUserProvider(p, res) ==
    /\ pc[p] = "DeleteUser.Provider"
    /\ pc' = [pc EXCEPT ![p] = "DeleteUser.Delete"]
    /\ loc' = [loc EXCEPT ![p].providerErr =
                              IF CreateProviderError(loc[p].user.AuthProvider) # NoError
                              THEN CreateProviderError(loc[p].user.AuthProvider)
                              ELSE res]
    /\ calls' = [calls EXCEPT ![p] = @ \o DeleteUserProviderCalls(loc[p].user)]
    /\ UNCHANGED <<store, out, nextId, jwtVars, gateVars, webVars>>

DeleteUserDelete(p, dbOk) ==
    /\ pc[p] = "DeleteUser.Delete"
    /\ LET userID == FromString(loc[p].input.userIDStr).id
           gone == UserRepositoryDelete(store, userID, dbOk)
           res == DeleteUserAfterDelete(gone.err)
       IN  /\ store' = gone.store
           /\ out' = [out EXCEPT ![p] = res]
           /\ loc' = [loc EXCEPT ![p].outage = ~dbOk,
                                 ![p].resp = AdminHandlerDeleteUserRespond(res)]
           /\ calls' = [calls EXCEPT ![p] = Append(@, [fn |-> "Delete", id |-> userID])]
    /\ pc' = [pc EXCEPT ![p] = "done"]
    /\ UNCHANGED <<nextId, jwtVars, gateVars, webVars>>

\* PUT /admin/v1/users/{id} up to the call of userUC.GetUserByID; ctx is what
\* RequireAdmin left in the request context, which the handler does not read
UpdateUserStart(p, ctx, userIDStr, body) ==
    /\ NoRequestInFlight
    /\ LET bad == AdminHandlerUpdateUserDecode(userIDStr, body)
       IN  /\ pc' = [pc EXCEPT ![p] = IF bad # NoResponse THEN "done"
                                      ELSE "UpdateUser.GetByID"]
           /\ loc' = [loc EXCEPT ![p] =
                         [NoLocals EXCEPT !.op = "UpdateUser",
                                          !.input = [ctx |-> ctx, userIDStr |-> userIDStr,
                                                     body |-> body],
                                          !.resp = bad]]
    /\ UNCHANGED <<store, out, calls, nextId, jwtVars, gateVars, webVars>>

UpdateUserGetByID(p, dbOk) ==
    /\ pc[p] = "UpdateUser.GetByID"
    /\ LET userID == FromString(loc[p].input.userIDStr).id
           got == UserRepositoryGetByID(store, userID, dbOk)
           n == AdminHandlerUpdateUserAfterGet(got, loc[p].input.body, now)
       IN  /\ pc' = [pc EXCEPT ![p] = n.pc]
           /\ loc' = [loc EXCEPT ![p].user = n.user,
                                 ![p].notFound = (got.err = ErrNotFound),
                                 ![p].outage = ~dbOk,
                                 ![p].resp = n.resp]
           /\ calls' = [calls EXCEPT ![p] = Append(@, [fn |-> "GetByID", id |-> userID])]
    /\ UNCHANGED <<store, out, nextId, jwtVars, gateVars, webVars>>

UpdateUserUpdate(p, dbOk) ==
    /\ pc[p] = "UpdateUser.Update"
    /\ LET put == UserRepositoryUpdate(store, loc[p].user, dbOk)
           res == UpdateUserAfterUpdate(put.err)
       IN  /\ store' = put.store
           /\ out' = [out EXCEPT ![p] = res]
           /\ loc' = [loc EXCEPT ![p].outage = ~dbOk,
                                 ![p].resp = AdminHandlerUpdateUserRespond(res, loc[p].user)]
    /\ calls' = [calls EXCEPT ![p] = Append(@, [fn |-> "Update", user |-> loc[p].user])]
    /\ pc' = [pc EXCEPT ![p] = "done"]
    /\ UNCHANGED <<nextId, jwtVars, gateVars, webVars>>

\* userUC.ListUsers(page, pageSize) up to the answer of repo.ListUsers
ListUsersListUsers(p, page, pageSize, dbOk) ==
    /\ NoRequestInFlight
    /\ LET params == ListUsersParams(page, pageSize)
           listed == UserRepositoryListUsers(store, params.Limit, params.Offset, dbOk)
           n == ListUsersAfterListUsers(listed)
       IN  /\ pc' = [pc EXCEPT ![p] = n.pc]
           /\ out' = [out EXCEPT ![p] = n.out]
           /\ loc' = [loc EXCEPT ![p] =
                         [NoLocals EXCEPT !.op = "ListUsers",
                                          !.input = [page |-> page, pageSize |-> pageSize],
                                          !.outage = ~dbOk,
                                          !.users = listed.users]]
           /\ calls' = [calls EXCEPT ![p] = <<[fn |-> "ListUsers", params |-> params]>>]
    /\ UNCHANGED <<store, nextId, jwtVars, gateVars, webVars>>

ListUsersCountUsers(p, dbOk) ==
    /\ pc[p] = "ListUsers.CountUsers"
    /\ LET counted == UserRepositoryCountUsers(store, dbOk)
           n == ListUsersAfterCountUsers(loc[p].users, counted)
       IN  /\ out' = [out EXCEPT ![p] = n.out]
           /\ loc' = [loc EXCEPT ![p].outage = ~dbOk,
                                 ![p].users = n.users,
                                 ![p].total = n.total]
    /\ calls' = [calls EXCEPT ![p] = Append(@, [fn |-> "CountUsers"])]
    /\ pc' = [pc EXCEPT ![p] = "done"]
    /\ UNCHANGED <<store, nextId, jwtVars, gateVars, webVars>>

\* the response is written and the goroutine of the request ends
RequestEnds(p) ==
    /\ pc[p] = "done"
    /\ pc' = [pc EXCEPT ![p] = "idle"]
    /\ loc' = [loc EXCEPT ![p] = NoLocals]
    /\ out' = [out EXCEPT ![p] = NotReturned]
    /\ calls' = [calls EXCEPT ![p] = <<>>]
    /\ UNCHANGED <<store, nextId, jwtVars, gateVars, webVars>>

NextAdmin ==
    \/ \E p \in Procs, ctx \in AdminContexts, path \in DeletePaths :
          DeleteUserStart(p, ctx, path)
    \/ \E p \in Procs, dbOk \in BOOLEAN : DeleteUserGetByID(p, dbOk)
    \/ \E p \in Procs, res \in ProviderDeleteResults : DeleteUserProvider(p, res)
    \/ \E p \in Procs, dbOk \in BOOLEAN : DeleteUserDelete(p, dbOk)
    \/ \E p \in Procs, ctx \in AdminContexts \ {NoClaims}, path \in UpdatePaths,
          body \in UpdateUserRequests \cup {NotJSON} :
          UpdateUserStart(p, ctx, path, body)
    \/ \E p \in Procs, dbOk \in BOOLEAN : UpdateUserGetByID(p, dbOk)
    \/ \E p \in Procs, dbOk \in BOOLEAN : UpdateUserUpdate(p, dbOk)
    \/ \E p \in Procs, page \in Pages, pageSize \in PageSizes, dbOk \in BOOLEAN :
          ListUsersListUsers(p, page, pageSize, dbOk)
    \/ \E p \in Procs, dbOk \in BOOLEAN : ListUsersCountUsers(p, dbOk)
    \/ \E p \in Procs : RequestEnds(p)

SpecAdmin == InitAdmin /\ [][NextAdmin]_vars

-----------------------------------------------------------------------------
(* SearchUsers over a table that holds an account of any short email *)
\* the bytes emails and search terms are made of
SearchBytes == {"a", "A", "@"}

\* every string of at most three of those bytes
SearchStrings ==
    {EmptyString}
    \cup {Chars(<<x>>) : x \in SearchBytes}
    \cup {Chars(<<x, y>>) : x \in SearchBytes, y \in SearchBytes}
    \cup {Chars(<<x, y, z>>) : x \in SearchBytes, y \in SearchBytes, z \in SearchBytes}

\* the role filters of a request: none, two roles, and one that differs from a
\* role in case only
SearchRoles == {"", AccountTypeUser, AccountTypeAdmin, "User"}

SearchPages == {1, 2}

SearchPageSizes == {1, 20}

\* the table: an administrator and a user of fixed emails, and a user whose
\* email is s
SearchRows(s) ==
    { [ID |-> 100, Email |-> Chars(<<"b", "@", "a">>), AuthProvider |-> ProviderName,
       AuthProviderID |-> "cred-b", AccountType |-> AccountTypeAdmin,
       CreatedAt |-> Epoch, UpdatedAt |-> Epoch],
      [ID |-> 101, Email |-> Chars(<<"A", "@", "B">>), AuthProvider |-> ProviderName,
       AuthProviderID |-> "cred-A", AccountType |-> AccountTypeUser,
       CreatedAt |-> Epoch + Second, UpdatedAt |-> Epoch + Second],
      [ID |-> 102, Email |-> s, AuthProvider |-> ProviderName,
       AuthProviderID |-> "cred-s", AccountType |-> AccountTypeUser,
       CreatedAt |-> Epoch + 2 * Second, UpdatedAt |-> Epoch + 2 * Second] }

\* the search term of the requests is req.search
InitSearch ==
    /\ now = Epoch + Minute
    /\ svc = [k \in ServiceNames |-> NewService(SecretOf(k), ProviderName, "bogus")]
    /\ held = EmptyString
    /\ heldInfo = NoInfo
    /\ jwtRes = IdleRes
    /\ nextJti = 1
    /\ advances = 0
    /\ \E substr \in SearchStrings : req = [search |-> substr]
    /\ gate = IdleGate
    /\ \E s \in SearchStrings : store = SearchRows(s)
    /\ pc = [p \in Procs |-> "idle"]
    /\ loc = [p \in Procs |-> NoLocals]
    /\ out = [p \in Procs |-> NotReturned]
    /\ calls = [p \in Procs |-> <<>>]
    /\ nextId = 1
    /\ client = NewClient

\* SearchUsers bounds page and pageSize as ListUsers does and calls
\* uc.ListUsers, whose first step is repo.ListUsers
SearchUsersListUsers(p, page, pageSize, accountType, dbOk) ==
    /\ NoRequestInFlight
    /\ LET params == ListUsersParams(page, pageSize)
           listed == UserRepositoryListUsers(store, params.Limit, params.Offset, dbOk)
           n == ListUsersAfterListUsers(listed)
       IN  /\ pc' = [pc EXCEPT ![p] = IF n.pc = "done" THEN "done"
                                      ELSE "SearchUsers.CountUsers"]
           /\ out' = [out EXCEPT ![p] = n.out]
           /\ loc' = [loc EXCEPT ![p] =
                         [NoLocals EXCEPT !.op = "SearchUsers",
                                          !.input = [page |-> page, pageSize |-> pageSize,
                                                     search |-> req.search,
                                                     accountType |-> accountType,
                                                     fetched |-> listed.users],
                                          !.outage = ~dbOk,
                                          !.users = listed.users]]
           /\ calls' = [calls EXCEPT ![p] = <<[fn |-> "ListUsers", params |-> params]>>]
    /\ UNCHANGED <<store, nextId, jwtVars, gateVars, webVars>>

\* repo.CountUsers answers, uc.ListUsers returns and SearchUsers filters
SearchUsersCountUsers(p, dbOk) ==
    /\ pc[p] = "SearchUsers.CountUsers"
    /\ LET counted == UserRepositoryCountUsers(store, dbOk)
           listed == ListUsersAfterCountUsers(loc[p].users, counted)
           n == SearchUsersAfterListUsers(listed, loc[p].input.search,
                                          loc[p].input.accountType)
       IN  /\ out' = [out EXCEPT ![p] = n.out]
           /\ loc' = [loc EXCEPT ![p].outage = ~dbOk,
                                 ![p].users = n.users,
                                 ![p].total = n.total]
    /\ calls' = [calls EXCEPT ![p] = Append(@, [fn |-> "CountUsers"])]
    /\ pc' = [pc EXCEPT ![p] = "done"]
    /\ UNCHANGED <<store, nextId, jwtVars, gateVars, webVars>>

NextSearch ==
    \/ \E p \in Procs, page \in SearchPages, pageSize \in SearchPageSizes,
          accountType \in SearchRoles, dbOk \in BOOLEAN :
          SearchUsersListUsers(p, page, pageSize, accountType, dbOk)
    \/ \E p \in Procs, dbOk \in BOOLEAN : SearchUsersCountUsers(p, dbOk)
    \/ \E p \in Procs : RequestEnds(p)

SpecSearch == InitSearch /\ [][NextSearch]_vars

-----------------------------------------------------------------------------
(* Browser requests interleaved on the one API client of a surface *)

WebRequests == {1, 2}

SessionGates ==
    {"web.RequireAuth", "web.OptionalAuth", "admin.RequireAuth", "admin.OptionalAuth"}

WebService == NewService(SecretOf("S1"), ProviderName, "5m")

\* the cookies a login leaves in the browser of the account `row`
SessionOf(row, token) ==
    [token |-> token, userID |-> CanonicalID(row.ID), userEmail |-> row.Email,
     accountType |-> row.AccountType]

AdminRow == CHOOSE r \in AdminRows : r.ID = 100

UserRow == CHOOSE r \in AdminRows : r.ID = 101

\* no session, the session of an administrator, the session of a user, and a
\* session whose token has expired
Sessions ==
    { NoCookies,
      SessionOf(AdminRow, GenerateToken(WebService, UUIDString(AdminRow.ID), AdminRow.Email,
                                        AdminRow.AccountType, Epoch + Second, 1)),
      SessionOf(UserRow, GenerateToken(WebService, UUIDString(UserRow.ID), UserRow.Email,
                                       UserRow.AccountType, Epoch + Second, 2)),
      SessionOf(AdminRow, GenerateToken(NewService(SecretOf("S1"), ProviderName, "1s"),
                                        UUIDString(AdminRow.ID), AdminRow.Email,
                                        AdminRow.AccountType, Epoch, 3)) }

InitWeb ==
    /\ now = Epoch + Minute
    /\ svc = [k \in ServiceNames |-> NewService(SecretOf(k), ProviderName, "5m")]
    /\ held = EmptyString
    /\ heldInfo = NoInfo
    /\ jwtRes = IdleRes
    /\ nextJti = 4
    /\ advances = 0
    /\ req = NoRequest
    /\ gate = IdleGate
    /\ store = AdminRows
    /\ pc = [p \in Procs |-> "idle"]
    /\ loc = [p \in Procs |-> NoLocals]
    /\ out = [p \in Procs |-> NotReturned]
    /\ calls = [p \in Procs |-> <<>>]
    /\ nextId = 1
    /\ client = NewClient

IsRequireAuth(g) == g \in {"web.RequireAuth", "admin.RequireAuth"}

\* a gate up to its call of the API: it reads the token cookie and, when there
\* is one, stores it in the shared client
SessionGateStart(p, g, r) ==
    /\ pc[p] = "idle"
    /\ IF r.token = EmptyString
       THEN /\ client' = client
            /\ IF IsRequireAuth(g)
               THEN /\ pc' = [pc EXCEPT ![p] = "done"]
                    /\ loc' = [loc EXCEPT ![p] = [NoLocals EXCEPT !.op = g, !.input = r,
                                                    !.gate = GateRedirected(FALSE)]]
               ELSE /\ pc' = [pc EXCEPT ![p] = "handler"]
                    /\ loc' = [loc EXCEPT ![p] = [NoLocals EXCEPT !.op = g, !.input = r,
                                                    !.gate = GateServed(NoContextUser, FALSE)]]
       ELSE /\ client' = SetAuthToken(client, r.token)
            /\ pc' = [pc EXCEPT ![p] = "verify"]
            /\ loc' = [loc EXCEPT ![p] = [NoLocals EXCEPT !.op = g, !.input = r]]
    /\ UNCHANGED <<store, out, calls, nextId, jwtVars, gateVars>>

\* m.client.GetCurrentUser() of the web surface and what the gate does with
\* its answer; sent is whether the HTTP request could be executed
WebGateVerify(p, sent) ==
    /\ pc[p] = "verify"
    /\ loc[p].op \in {"web.RequireAuth", "web.OptionalAuth"}
    /\ LET header == AuthorizationHeader(client, TRUE)
           resp == GetMe(svc["S1"], store, header, now)
           failed == DoRequestFailed(sent, resp.status)
           user == IF failed THEN NoContextUser ELSE resp.user
           g == IF loc[p].op = "web.RequireAuth"
                THEN WebRequireAuthAfterGetCurrentUser(failed, user)
                ELSE WebOptionalAuthAfterGetCurrentUser(failed, user)
       IN  /\ calls' = [calls EXCEPT ![p] =
                          Append(@, [fn |-> "GetCurrentUser", header |-> header,
                                     sent |-> sent])]
           /\ loc' = [loc EXCEPT ![p].gate = g]
           /\ pc' = [pc EXCEPT ![p] = IF g.served = 1 THEN "handler" ELSE "done"]
    /\ UNCHANGED <<store, out, nextId, jwtVars, gateVars, webVars>>

\* m.client.VerifyToken() of the admin surface and what the gate does with it
AdminGateVerify(p, sent) ==
    /\ pc[p] = "verify"
    /\ loc[p].op \in {"admin.RequireAuth", "admin.OptionalAuth"}
    /\ LET header == AuthorizationHeader(client, TRUE)
           failed == DoRequestFailed(sent, VerifyAdminToken(svc["S1"], header, now))
           g == IF loc[p].op = "admin.RequireAuth"
                THEN AdminRequireAuthAfterVerifyToken(loc[p].input, failed)
                ELSE AdminOptionalAuthAfterVerifyToken(loc[p].input, failed)
       IN  /\ calls' = [calls EXCEPT ![p] =
                          Append(@, [fn |-> "VerifyToken", header |-> header,
                                     sent |-> sent])]
           /\ loc' = [loc EXCEPT ![p].gate = g]
           /\ pc' = [pc EXCEPT ![p] = IF g.served = 1 THEN "handler" ELSE "done"]
    /\ UNCHANGED <<store, out, nextId, jwtVars, gateVars, webVars>>

\* the wrapped handler: behind the admin surface's RequireAuth it is a page
\* that asks the API for its data (Dashboard: h.client.GetDashboardStats());
\* the other pages make no authenticated call
WrappedHandler(p) ==
    /\ pc[p] = "handler"
    /\ calls' = [calls EXCEPT ![p] =
                   IF loc[p].op = "admin.RequireAuth"
                   THEN Append(@, [fn |-> "GetDashboardStats",
                                   header |-> AuthorizationHeader(client, TRUE)])
                   ELSE @]
    /\ pc' = [pc EXCEPT ![p] = "done"]
    /\ UNCHANGED <<store, loc, out, nextId, jwtVars, gateVars, webVars>>

NextWeb ==
    \/ \E p \in WebRequests, g \in SessionGates, r \in Sessions : SessionGateStart(p, g, r)
    \/ \E p \in WebRequests, sent \in BOOLEAN : WebGateVerify(p, sent)
    \/ \E p \in WebRequests, sent \in BOOLEAN : AdminGateVerify(p, sent)
    \/ \E p \in WebRequests : WrappedHandler(p)
    \/ \E p \in WebRequests : RequestEnds(p)

SpecWeb == InitWeb /\ [][NextWeb]_vars

-----------------------------------------------------------------------------
(* POST /settings of the admin surface: RequireAuth, then RequireSuperAdmin *)
\* the tokens of the sessions: an administrator's, a super-administrator's, a
\* user's, and an administrator's that has expired
SettingsTokens ==
    { GenerateToken(WebService, UUIDString(AdminRow.ID), AdminRow.Email,
                    AccountTypeAdmin, Epoch + Second, 1),
      GenerateToken(WebService, UUIDString(AdminRow.ID), AdminRow.Email,
                    AccountTypeSuperAdmin, Epoch + Second, 2),
      GenerateToken(WebService, UUIDString(UserRow.ID), UserRow.Email,
                    AccountTypeUser, Epoch + Second, 3),
      GenerateToken(NewService(SecretOf("S1"), ProviderName, "1s"),
                    UUIDString(AdminRow.ID), AdminRow.Email,
                    AccountTypeAdmin, Epoch, 3) }

\* the cookies of a request: a browser sends whatever account-type cookie it
\* likes next to its token
SettingsSessions ==
    { NoCookies }
    \cup { [SessionOf(AdminRow, tok) EXCEPT !.accountType = a] :
              tok \in SettingsTokens, a \in AccountTypes \cup {""} }

SettingsStart(p, r) == SessionGateStart(p, "admin.RequireAuth", r)

\* RequireAuth called next: RequireSuperAdmin decides on the user of the
\* context and calls UpdateSettings or writes its refusal
SettingsRequireSuperAdmin(p, hxRequest) ==
    /\ pc[p] = "handler"
    /\ LET d == AdminRequireSuperAdmin(loc[p].gate.user, hxRequest)
       IN  /\ loc' = [loc EXCEPT ![p].resp = d.resp]
           /\ calls' = [calls EXCEPT ![p] =
                          IF d.next THEN Append(@, [fn |-> "UpdateSettings"]) ELSE @]
    /\ pc' = [pc EXCEPT ![p] = "done"]
    /\ UNCHANGED <<store, out, nextId, jwtVars, gateVars, webVars>>

NextSettings ==
    \/ \E p \in WebRequests, r \in SettingsSessions : SettingsStart(p, r)
    \/ \E p \in WebRequests, sent \in BOOLEAN : AdminGateVerify(p, sent)
    \/ \E p \in WebRequests, hxRequest \in BOOLEAN : SettingsRequireSuperAdmin(p, hxRequest)
    \/ \E p \in WebRequests : RequestEnds(p)

SpecSettings == InitWeb /\ [][NextSettings]_vars

-----------------------------------------------------------------------------
(* Access-control gate properties *)

\* the bearer credential an Authorization header carries: scheme, one space, token
BearerCredentials(h) ==
    LET parts == Split(h)
    IN  IF Len(parts) = 2 /\ ToLower(parts[1]) = Bearer THEN {parts[2]} ELSE {}

\* the credentials a gate may take from a request
CredentialsOf(name, r) ==
    BearerCredentials(r.header)
    \cup (IF name # "RequireAuth" /\ r.cookie.present THEN {r.cookie.value} ELSE {})

RoleRank(a) ==
    CASE a = AccountTypeUser -> 1
      [] a = AccountTypeAdmin -> 2
      [] a = AccountTypeSuperAdmin -> 3
      [] OTHER -> 0

\* the minimum role of the routes behind a gate
RequiredRole(name) ==
    CASE name = "RequireAdmin" -> AccountTypeAdmin
      [] name = "RequireSuperAdmin" -> AccountTypeSuperAdmin
      [] OTHER -> ""

RejectedStatuses == {StatusUnauthorized, StatusFound, StatusForbidden}

\* C1: behind RequireAuth, RequireAdmin and RequireSuperAdmin the wrapped
\* handler runs only for a request that carries a credential which
\* ValidateToken accepts and whose role meets the minimum of the gate, with
\* those claims in the context; otherwise the request is rejected (401, 302
\* or 403) and the handler does not run.
C1_HandlerOnlyAfterAuthorization ==
    gate.name \in GateNames =>
        /\ gate.next =>
              \E tok \in CredentialsOf(gate.name, req) :
                  LET v == ValidateToken(svc["S1"], tok, now)
                  IN  /\ v.ok
                      /\ RoleRank(v.claims.AccountType) >= RoleRank(RequiredRole(gate.name))
                      /\ gate.ctx = v.claims
        /\ ~gate.next => (gate.status \in RejectedStatuses /\ gate.ctx = NoClaims)

\* the super-admin gate lets a request through on its cookie alone
C1_Witness ==
    /\ gate.name = "RequireSuperAdmin"
    /\ gate.next
    /\ BearerCredentials(req.header) = {}
    /\ req.cookie.present
    /\ gate.ctx.AccountType = AccountTypeSuperAdmin

\* C2: with a valid token of role r in {user, admin, super_admin}, RequireAdmin
\* lets the request through iff r is admin or super_admin and RequireSuperAdmin
\* iff r is super_admin, which is r >= the required role in the order
\* user < admin < super_admin; a role that is refused gets 403 and the handler
\* does not run.
C2_RoleThreshold ==
    gate.name \in {"RequireAdmin", "RequireSuperAdmin"} =>
        LET v == ValidateToken(svc["S1"], AdminToken(req), now)
        IN  (v.ok /\ v.claims.AccountType \in AccountTypes) =>
               /\ gate.next <=>
                    RoleRank(v.claims.AccountType) >= RoleRank(RequiredRole(gate.name))
               /\ gate.next <=>
                    IF gate.name = "RequireAdmin"
                    THEN v.claims.AccountType \in {AccountTypeAdmin, AccountTypeSuperAdmin}
                    ELSE v.claims.AccountType = AccountTypeSuperAdmin
               /\ ~gate.next => gate.status = StatusForbidden

\* a valid admin token is refused with 403 by the super-admin gate
C2_Witness ==
    /\ gate.name = "RequireSuperAdmin"
    /\ ValidateToken(svc["S1"], AdminToken(req), now).ok
    /\ ValidateToken(svc["S1"], AdminToken(req), now).claims.AccountType = AccountTypeAdmin
    /\ ~gate.next
    /\ gate.status = StatusForbidden

-----------------------------------------------------------------------------
(* Login properties *)

CreateCalls(p) == SelectSeq(calls[p], LAMBDA c : c.fn = "Create")

LoginDone(p) == loc[p].op = "Login" /\ pc[p] = "done"

\* a finished Login whose provider call succeeded, whose lookup was answered
\* not-found, and whose Create reached a database that was up
LazyLogin(p) == LoginDone(p) /\ loc[p].notFound /\ ~loc[p].outage

\* C7: when the provider's Login succeeds and the store reports not-found for
\* the email (and holds no row for it when Create arrives), Login calls Create
\* exactly once with a new Account of that email, provider name Provider(),
\* provider id as returned by the provider and role user, and returns a
\* non-empty token for that account.
C7_LazyCreateWithRoleUser ==
    \A p \in Procs :
        (LazyLogin(p) /\ loc[p].rowsAtCreate = {}) =>
            /\ Len(CreateCalls(p)) = 1
            /\ LET u == CreateCalls(p)[1].user
               IN  /\ u.ID # NilUUID
                   /\ u.Email = loc[p].email
                   /\ u.AuthProvider = ProviderName
                   /\ u.AuthProviderID = loc[p].authProviderID
                   /\ u.AccountType = AccountTypeUser
                   /\ out[p].err = NoError
                   /\ IsTokenString(out[p].token)
                   /\ Decode(out[p].token).UserID = UUIDString(u.ID)

\* C8: when the provider's Login returns an error, Login returns an
\* authentication-failed error and no token, and has made no call on the
\* account store.
C8_ProviderErrorStopsLogin ==
    \A p \in Procs :
        (LoginDone(p) /\ loc[p].providerErr # NoError) =>
            /\ out[p].returned
            /\ out[p].err = Wrap("authentication failed", loc[p].providerErr)
            /\ out[p].token = EmptyString
            /\ out[p].user = NoUser
            /\ calls[p] = <<>>

\* a Login refused by the provider has returned while another call has
\* reached the store
C8_Witness ==
    \E p, q \in Procs :
        /\ LoginDone(p)
        /\ loc[p].providerErr # NoError
        /\ out[p].returned
        /\ calls[q] # <<>>

\* C9: when every call in flight is a Login for the same email that went the
\* not-found way, the store ends with exactly one Account for that email and
\* at least one of the calls has returned a token.
C9_RaceLeavesOneRowAndOneToken ==
    \A e \in Emails :
        (\A p \in Procs : LazyLogin(p) /\ loc[p].email = e) =>
            /\ Cardinality(RowsWithEmail(store, e)) = 1
            /\ \E p \in Procs : out[p].err = NoError /\ out[p].token # EmptyString

\* C10: the Login whose Create is refused because a row for its email has
\* appeared since its lookup uses that row and returns a token for it.
C10_RaceLoserUsesExistingRow ==
    \A p \in Procs :
        (LazyLogin(p) /\ loc[p].rowsAtCreate # {}) =>
            /\ out[p].err = NoError
            /\ IsTokenString(out[p].token)
            /\ \E r \in loc[p].rowsAtCreate :
                  /\ out[p].user = r
                  /\ Decode(out[p].token).UserID = UUIDString(r.ID)

-----------------------------------------------------------------------------
(* Token service properties *)

ValidatedRightAfterGenerate ==
    /\ jwtRes.op = "validate"
    /\ heldInfo.kind = "generated"
    /\ heldInfo.by = jwtRes.by
    /\ heldInfo.at = jwtRes.at
    /\ jwtRes.input = held

RoundTripSucceeds ==
    /\ jwtRes.ok
    /\ jwtRes.claims.UserID = heldInfo.in.userID
    /\ jwtRes.claims.Email = heldInfo.in.email
    /\ jwtRes.claims.AccountType = heldInfo.in.accountType
    /\ jwtRes.claims.ExpiresAt > jwtRes.at

\* C3 as stated: whatever lifetime the service was configured with,
\* GenerateToken followed at once by ValidateToken on the same service succeeds,
\* returns the accountID, email and role that were put in, and an expires-at
\* strictly in the future.
C3_RoundTripAnyLifetime ==
    ValidatedRightAfterGenerate => RoundTripSucceeds

\* C3 amended: the round trip succeeds, with equal accountID, email and role and
\* an expires-at strictly in the future, whenever the configured lifetime is at
\* least one second (an unparseable setting counts as 24h).
C3_RoundTripLifetimeAtLeastOneSecond ==
    (ValidatedRightAfterGenerate /\ svc[jwtRes.by].expiry >= Second)
        => RoundTripSucceeds

\* a round trip made at an instant that is not a whole second, the service
\* configured with a finite parseable lifetime
C3_Witness ==
    /\ ValidatedRightAfterGenerate
    /\ svc[jwtRes.by].expiry >= Second
    /\ svc[jwtRes.by].expiry < Hour
    /\ jwtRes.at % Second # 0
    /\ RoundTripSucceeds

RefreshedValidToken ==
    /\ jwtRes.op = "refresh"
    /\ ValidateToken(svc[jwtRes.by], jwtRes.input, jwtRes.at).ok

Remaining == Decode(jwtRes.input).ExpiresAt - jwtRes.at

\* C4: RefreshToken on a valid token with more than 5 minutes left returns the
\* very same string; with 5 minutes or less left (exactly 5 minutes included)
\* it returns another string whose accountID, email and role are the original's.
C4_RefreshWindow ==
    RefreshedValidToken =>
        /\ jwtRes.ok
        /\ (Remaining > 5 * Minute) => (jwtRes.token = jwtRes.input /\ ~jwtRes.minted)
        /\ (Remaining <= 5 * Minute) =>
              /\ jwtRes.token # jwtRes.input
              /\ IsTokenString(jwtRes.token)
              /\ Decode(jwtRes.token).UserID = Decode(jwtRes.input).UserID
              /\ Decode(jwtRes.token).Email = Decode(jwtRes.input).Email
              /\ Decode(jwtRes.token).AccountType = Decode(jwtRes.input).AccountType

\* a refresh with exactly 5 minutes left, answered with a new string
C4_Witness ==
    /\ RefreshedValidToken
    /\ Remaining = 5 * Minute
    /\ jwtRes.ok
    /\ jwtRes.token # jwtRes.input

ExpiredInput ==
    /\ jwtRes.op \in {"validate", "refresh"}
    /\ IsTokenString(jwtRes.input)
    /\ Decode(jwtRes.input).ExpiresAt < jwtRes.at

\* C5: ValidateToken on a token whose expires-at lies in the past fails and
\* returns no claims; RefreshToken on such a token fails too and mints nothing.
C5_ExpiredRejected ==
    ExpiredInput =>
        /\ ~jwtRes.ok
        /\ jwtRes.claims = NoClaims
        /\ jwtRes.token = EmptyString
        /\ ~jwtRes.minted

\* a token of this very service, minted with a positive lifetime, is refused by
\* RefreshToken once the clock has passed its expires-at
C5_Witness ==
    /\ ExpiredInput
    /\ jwtRes.op = "refresh"
    /\ heldInfo.kind = "generated"
    /\ heldInfo.by = jwtRes.by
    /\ jwtRes.input = held
    /\ svc[jwtRes.by].expiry > 0
    /\ ~jwtRes.ok

SignedWithOtherSecret ==
    /\ jwtRes.op = "validate"
    /\ IsTokenString(jwtRes.input)
    /\ Decode(jwtRes.input).sig # svc[jwtRes.by].secretKey

\* C6: ValidateToken on a token signed with a secret other than the verifying
\* service's fails and returns no claims.
C6_WrongSecretRejected ==
    SignedWithOtherSecret => (~jwtRes.ok /\ jwtRes.claims = NoClaims)

\* an unexpired token minted by the other service is refused
C6_Witness ==
    /\ SignedWithOtherSecret
    /\ heldInfo.kind = "generated"
    /\ heldInfo.by # jwtRes.by
    /\ jwtRes.input = held
    /\ Decode(jwtRes.input).alg \in HMACMethods
    /\ jwtRes.at < Decode(jwtRes.input).ExpiresAt
    /\ ~jwtRes.ok

-----------------------------------------------------------------------------
(* Registration properties *)

RegistrationDone(p) == loc[p].op \in {"Register", "CreateUser"} /\ pc[p] = "done"

\* C11: when the provider's RegisterUser fails, Register (and the
\* administrative CreateUser) returns an error and no token, and has made no
\* Create call on the account store: no local state is written.
C11_ProviderRegisterErrorWritesNothing ==
    \A p \in Procs :
        (RegistrationDone(p) /\ loc[p].providerErr # NoError) =>
            /\ out[p].returned
            /\ out[p].err # NoError
            /\ loc[p].op = "Register" =>
                   out[p].err = Wrap("registration failed", loc[p].providerErr)
            /\ out[p].token = EmptyString
            /\ out[p].user = NoUser
            /\ calls[p] = <<>>

\* a Register and a CreateUser have both been refused by the provider
C11_Witness ==
    \E p, q \in Procs :
        /\ RegistrationDone(p) /\ loc[p].op = "Register"
        /\ RegistrationDone(q) /\ loc[q].op = "CreateUser"
        /\ loc[p].providerErr # NoError
        /\ loc[q].providerErr # NoError
        /\ out[p].returned /\ out[q].returned

\* a finished Register whose provider call succeeded and whose Create reached
\* a database that was up and held no row for the email
RegisterReachedFreeStore(p) ==
    /\ loc[p].op = "Register" /\ pc[p] = "done"
    /\ loc[p].providerErr = NoError
    /\ ~loc[p].outage
    /\ loc[p].rowsAtCreate = {}

\* C12: Register(email, password) with a provider that returns external id X
\* and a store ready to take the row yields an Account with that email,
\* provider name Provider(), provider id X and role user, together with a
\* non-empty token that validates and whose claims carry the same account id,
\* email and role user.
C12_RegisterYieldsUserAccountAndToken ==
    \A p \in Procs :
        RegisterReachedFreeStore(p) =>
            /\ Len(CreateCalls(p)) = 1
            /\ LET u == CreateCalls(p)[1].user
                   v == ValidateToken(svc["S1"], out[p].token, now)
               IN  /\ u.Email = loc[p].email
                   /\ u.AuthProvider = ProviderName
                   /\ u.AuthProviderID = loc[p].authProviderID
                   /\ u.AccountType = AccountTypeUser
                   /\ out[p].err = NoError
                   /\ out[p].user = u
                   /\ out[p].token # EmptyString
                   /\ v.ok
                   /\ v.claims.UserID = UUIDString(u.ID)
                   /\ v.claims.Email = u.Email
                   /\ v.claims.AccountType = AccountTypeUser

\* C13: when the account store's Create fails with the duplicate-key condition
\* during registration (a row with the email is already there), the caller
\* receives the specific already-exists outcome, 409 "user already exists" on
\* the API surface, and not the generic registration failure (500).
C13_DuplicateEmailAnswersConflict ==
    \A p \in Procs :
        ( /\ loc[p].op = "AuthHandler.Register" /\ pc[p] = "done"
          /\ Len(CreateCalls(p)) = 1
          /\ ~loc[p].outage
          /\ loc[p].rowsAtCreate # {} ) =>
            /\ out[p].err = Wrap("failed to create user locally",
                                 Wrap("user with email already exists", ErrDuplicateKey))
            /\ loc[p].resp.status = StatusConflict
            /\ loc[p].resp.error = "user already exists"

-----------------------------------------------------------------------------
(* Administrative request properties *)

\* the path text names the account id
PathNames(text, id) == text \in {CanonicalID(id), BracedID(id)}

\* a DeleteUser request of process p is being served or has been answered,
\* and its path names the account of the caller's own claims
SelfDelete(p) ==
    /\ loc[p].op = "DeleteUser"
    /\ HasUser(loc[p].input.ctx)
    /\ \E id \in PathIDs : /\ PathNames(loc[p].input.userIDStr, id)
                           /\ loc[p].input.ctx.UserID = UUIDString(id)

\* C14: an administrative DeleteUser request whose target account id equals
\* the account id in the caller's own claims is rejected, and no GetByID, no
\* upstream provider DeleteUser and no local store Delete call is made for it.
C14_SelfDeleteRejectedBeforeAnyCall ==
    \A p \in Procs :
        SelfDelete(p) =>
            /\ pc[p] = "done"
            /\ loc[p].resp.status = StatusBadRequest
            /\ loc[p].resp.error = "cannot delete your own account"
            /\ calls[p] = <<>>
            /\ out[p] = NotReturned

\* the administrator's own id arrived in braces and the request was rejected
C14_Witness ==
    \E p \in Procs :
        /\ SelfDelete(p)
        /\ loc[p].input.userIDStr = BracedID(100)
        /\ loc[p].resp.status = StatusBadRequest
        /\ store # AdminRows

DeleteUserCalled(p) == loc[p].op = "DeleteUser" /\ pc[p] = "done" /\ calls[p] # <<>>

FnsOf(cs) == [i \in 1..Len(cs) |-> cs[i].fn]

ListUsersCalled(p) == loc[p].op = "ListUsers" /\ calls[p] # <<>>

OutOfRange(in) == in.page < 1 \/ in.pageSize < 1 \/ in.pageSize > 100

-----------------------------------------------------------------------------
(* Account role properties *)

\* the accounts process p has handed to the store so far
HandedToStore(p) ==
    { calls[p][i].user : i \in { j \in 1..Len(calls[p]) :
                                   calls[p][j].fn \in {"Create", "Update"} } }

\* C17: after any sequence of Register, Login (including lazy account
\* creation), CreateUser and UpdateUser operations, every Account handed to or
\* held by the account store has a role that is one of user, admin and
\* super_admin, never empty or any other string.
C17_RoleAlwaysEnumerated ==
    /\ \A r \in store : r.AccountType \in AccountTypes
    /\ \A p \in Procs : \A u \in HandedToStore(p) : u.AccountType \in AccountTypes

-----------------------------------------------------------------------------
(* Login of an existing account *)

\* a finished Login whose provider call succeeded and whose lookup found a row
LoginFoundAccount(p) ==
    /\ LoginDone(p)
    /\ loc[p].providerErr = NoError
    /\ ~loc[p].notFound /\ ~loc[p].outage
    /\ Len(calls[p]) >= 1

\* C19: when the provider's Login succeeds and the store already holds an
\* Account for the email, Login mints the token from the stored account's id,
\* email and role (whatever identifier the provider returned), returns that
\* stored account, and makes no Create or Update call.
C19_ExistingAccountIsUsedAsStored ==
    \A p \in Procs :
        LoginFoundAccount(p) =>
            /\ calls[p] = <<[fn |-> "GetByEmail", email |-> loc[p].email]>>
            /\ out[p].returned /\ out[p].err = NoError
            /\ out[p].user \in RowsWithEmail(store, loc[p].email)
            /\ IsTokenString(out[p].token)
            /\ LET tk == Decode(out[p].token)
               IN  /\ tk.UserID = UUIDString(out[p].user.ID)
                   /\ tk.Email = out[p].user.Email
                   /\ tk.AccountType = out[p].user.AccountType

\* an administrator logged in, the provider having answered with a token that
\* is not the stored provider id, while another call wrote a row
C19_Witness ==
    \E p \in Procs :
        /\ LoginFoundAccount(p)
        /\ loc[p].authProviderID = "access-1"
        /\ out[p].user.AuthProviderID = CredentialOf("a@b.com")
        /\ out[p].user.AccountType = AccountTypeAdmin
        /\ out[p].token # EmptyString
        /\ Cardinality(store) = 2

-----------------------------------------------------------------------------
(* Browser-surface request properties *)

\* the Authorization header that carries the token cookie of request p
OwnHeader(p) == BearerPrefix \o loc[p].input.token

\* C18: whatever the interleaving of two browser-surface requests, the
\* verification call of the gate and every API call made while serving a
\* request carry the token of that request's own cookie, never the token
\* another request stored in the client.
C18_CallsCarryOwnToken ==
    \A p \in WebRequests :
        \A i \in 1..Len(calls[p]) : calls[p][i].header = OwnHeader(p)

\* the optional-auth gate of request p has run to its end
OptionalGateDone(p) ==
    /\ loc[p].op \in {"web.OptionalAuth", "admin.OptionalAuth"}
    /\ pc[p] \in {"handler", "done"}

TokenCookiePresent(p) == loc[p].input.token # EmptyString

\* the API accepts the token of request p's own cookie when asked to verify it
OwnTokenAccepted(p) ==
    IF loc[p].op = "web.OptionalAuth"
    THEN GetMe(svc["S1"], store, OwnHeader(p), now).status = StatusOK
    ELSE VerifyAdminToken(svc["S1"], OwnHeader(p), now) = StatusOK

\* the verification request of p reached the API
VerificationSent(p) == Len(calls[p]) >= 1 /\ calls[p][1].sent

\* C20: the optional-auth gate calls the wrapped handler exactly once; the
\* request context carries a user exactly when the request had a token cookie
\* and the API validated that token; and a request whose token cookie fails
\* validation has its auth cookies cleared and goes on without a user.
C20_OptionalGate ==
    \A p \in WebRequests :
        OptionalGateDone(p) =>
            /\ loc[p].gate.served = 1
            /\ loc[p].gate.status = 0
            /\ (loc[p].gate.user # NoContextUser)
                  <=> (TokenCookiePresent(p) /\ OwnTokenAccepted(p) /\ VerificationSent(p))
            /\ (TokenCookiePresent(p) /\ ~(OwnTokenAccepted(p) /\ VerificationSent(p)))
                  => (loc[p].gate.cleared /\ loc[p].gate.user = NoContextUser)

\* what remains of C20 when the gate's verification call carried the token of
\* the request's own cookie
C20_OptionalGateWhenOwnTokenCarried ==
    \A p \in WebRequests :
        (OptionalGateDone(p) /\ (Len(calls[p]) >= 1 => calls[p][1].header = OwnHeader(p))) =>
            /\ loc[p].gate.served = 1
            /\ (loc[p].gate.user # NoContextUser)
                  <=> (TokenCookiePresent(p) /\ OwnTokenAccepted(p) /\ VerificationSent(p))
            /\ (TokenCookiePresent(p) /\ ~(OwnTokenAccepted(p) /\ VerificationSent(p)))
                  => (loc[p].gate.cleared /\ loc[p].gate.user = NoContextUser)

-----------------------------------------------------------------------------
(* Signing-method properties *)

\* the last call was ValidateToken on a well-formed token whose header names a
\* method outside the HMAC family
ValidatedForeignMethod ==
    /\ jwtRes.op = "validate"
    /\ IsTokenString(jwtRes.input)
    /\ Decode(jwtRes.input).alg \notin HMACMethods

\* C24: ValidateToken rejects every token whose header names a signing method
\* outside the HMAC family, also when the token is otherwise well formed and
\* unexpired, and returns no claims for it.
C24_ForeignMethodRejected ==
    ValidatedForeignMethod => (~jwtRes.ok /\ jwtRes.claims = NoClaims)

\* a token with method RS256 that carries the validating service's secret as
\* its signature and is neither expired nor too early was validated
C24_Witness ==
    /\ ValidatedForeignMethod
    /\ Decode(jwtRes.input).alg = "RS256"
    /\ Decode(jwtRes.input).sig = svc[jwtRes.by].secretKey
    /\ jwtRes.at < Decode(jwtRes.input).ExpiresAt
    /\ jwtRes.at >= Decode(jwtRes.input).NotBefore
    /\ ~jwtRes.ok

-----------------------------------------------------------------------------
(* Login after a failed lookup *)

\* the provider accepted the credentials and GetByEmail then failed with an
\* error that is not the not-found condition
LoginLookupFailed(p) ==
    /\ loc[p].op = "Login"
    /\ loc[p].providerErr = NoError
    /\ Len(calls[p]) >= 1
    /\ loc[p].outage
    /\ ~loc[p].notFound

\* C22: when the provider's Login succeeds and GetByEmail fails with an error
\* other than not-found, Login returns an error, calls Create not at all and
\* mints no token.
C22_LookupFailureAbortsLogin ==
    \A p \in Procs :
        LoginLookupFailed(p) =>
            /\ pc[p] = "done"
            /\ out[p].returned
            /\ out[p].err # NoError
            /\ Head(out[p].err) = "failed to get user"
            /\ out[p].token = EmptyString
            /\ out[p].user = NoUser
            /\ calls[p] = <<[fn |-> "GetByEmail", email |-> loc[p].email]>>

\* the lookup of an account that is in the table failed
C22_Witness ==
    \E p \in Procs :
        /\ LoginLookupFailed(p)
        /\ out[p].returned
        /\ RowsWithEmail(store, loc[p].email) # {}

-----------------------------------------------------------------------------
(* Registration order and the credential left behind *)

RegistrationOps == {"Register", "CreateUser", "AuthHandler.Register"}

\* the provider has answered RegisterUser of call p with a new credential
CredentialIssued(p) ==
    /\ loc[p].op \in RegistrationOps
    /\ loc[p].providerErr = NoError
    /\ loc[p].authProviderID # ""

\* call p has finished, its Create was made and wrote no row
CreateFailed(p) ==
    /\ loc[p].op \in RegistrationOps
    /\ pc[p] = "done"
    /\ CreateCalls(p) # <<>>
    /\ \A r \in store : r.ID # loc[p].user.ID

\* C23: in Register and CreateUser the provider's RegisterUser comes before the
\* store's Create, which is handed the credential the provider issued; when
\* Create fails the call returns the error and calls the provider no more, so
\* the credential stays at the provider with no row written for it.
C23_CredentialLeftBehind ==
    \A p \in Procs :
        /\ (loc[p].op \in RegistrationOps /\ calls[p] # <<>>) =>
               /\ CredentialIssued(p)
               /\ calls[p] = <<[fn |-> "Create", user |-> loc[p].user]>>
               /\ loc[p].user.AuthProviderID = loc[p].authProviderID
        /\ CreateFailed(p) =>
               /\ CredentialIssued(p)
               /\ out[p].returned
               /\ out[p].err # NoError
               /\ out[p].user = NoUser
               /\ out[p].token = EmptyString

\* a CreateUser and a Register have both lost their Create on a database that
\* was up, after the provider had issued their credentials
C23_Witness ==
    \E p, q \in Procs :
        /\ CreateFailed(p) /\ loc[p].op = "CreateUser" /\ ~loc[p].outage
        /\ CreateFailed(q) /\ loc[q].op = "Register" /\ ~loc[q].outage
        /\ CredentialIssued(p) /\ CredentialIssued(q)

-----------------------------------------------------------------------------
(* Admin login properties *)

\* an admin login whose body passed decoding and validation has been answered
AdminLoginDone(p) ==
    /\ loc[p].op = "AdminLogin"
    /\ pc[p] = "done"
    /\ out[p].returned

\* C21: AdminLogin answers 200 with a token only when the Login behind it
\* succeeded and the account it resolved has role admin or super_admin; for an
\* account of role user it answers 403 without a token, and when Login fails
\* it answers 401.
C21_AdminLoginAnswers ==
    \A p \in Procs :
        AdminLoginDone(p) =>
            /\ loc[p].resp.status = StatusOK =>
                   /\ out[p].err = NoError
                   /\ out[p].user.AccountType \in {AccountTypeAdmin, AccountTypeSuperAdmin}
                   /\ loc[p].resp.token = out[p].token
                   /\ loc[p].resp.token # EmptyString
            /\ loc[p].resp.token # EmptyString => loc[p].resp.status = StatusOK
            /\ (out[p].err = NoError /\ out[p].user.AccountType = AccountTypeUser) =>
                   /\ loc[p].resp.status = StatusForbidden
                   /\ loc[p].resp.token = EmptyString
            /\ out[p].err # NoError =>
                   /\ loc[p].resp.status = StatusUnauthorized
                   /\ loc[p].resp.token = EmptyString

\* the login of an account of role user was answered 403 and a login the
\* provider refused was answered 401
C21_Witness ==
    \E p, q \in Procs :
        /\ AdminLoginDone(p) /\ AdminLoginDone(q)
        /\ out[p].err = NoError /\ out[p].user.AccountType = AccountTypeUser
        /\ loc[p].resp.status = StatusForbidden
        /\ loc[q].providerErr # NoError
        /\ loc[q].resp.status = StatusUnauthorized

\* a step of admin login p that does not end it with 200
RefusedAdminLoginStep(p) ==
    /\ loc'[p].op = "AdminLogin"
    /\ pc'[p] # pc[p]
    /\ ~(pc'[p] = "done" /\ loc'[p].resp.status = StatusOK)

-----------------------------------------------------------------------------
(* Pagination arithmetic *)

\* the largest value of int32
MaxInt32 == 2147483647

\* C30: for every positive page and every pageSize, the limit handed to the
\* store by ListUsers lies between 1 and 100 and the offset handed to the
\* store is (page-1)*limit, which is not negative: the conversion of the
\* offset to 32 bits never wraps.
C30_OffsetNeverWraps ==
    \A p \in Procs :
        (ListUsersCalled(p) /\ loc[p].input.page >= 1) =>
            LET page == loc[p].input.page
                params == calls[p][1].params
            IN  /\ params.Limit \in 1..100
                /\ params.Offset >= 0
                /\ page - 1 <= MaxInt32 \div params.Limit
                /\ params.Offset = (page - 1) * params.Limit

-----------------------------------------------------------------------------
(* Search properties *)
\* the standard test: substr occurs in s at some position
IsSubstring(s, substr) ==
    \E i \in 0..(Len(s) - Len(substr)) : SubSeq(s, i + 1, i + Len(substr)) = substr

SearchUsersDone(p) ==
    loc[p].op = "SearchUsers" /\ pc[p] = "done" /\ out[p].err = NoError

\* the accounts of a sequence, as a set
Range(f) == {f[i] : i \in DOMAIN f}

-----------------------------------------------------------------------------
(* Agreement of the three readers of the Authorization header *)
\* the token VerifyAdminToken takes from a header: what follows its first
\* seven bytes when those are "Bearer "
PrefixCredentials(h) ==
    IF Len(h) >= 7 /\ SubSeq(h, 1, 7) = BearerPrefix
    THEN {SubSeq(h, 8, Len(h))} ELSE {}

\* the request that carries the header of req and no cookie
HeaderOnly == [header |-> req.header, cookie |-> NoCookie]

\* C27: RequireAuth, RequireAdmin and VerifyAdminToken take a bearer
\* credential from the same Authorization headers, namely those of exactly two
\* space-separated parts whose first is "bearer" in any case, and take the same
\* token from them; so on a request without a cookie RequireAdmin lets through
\* exactly the headers VerifyAdminToken answers 200 to, and those are the
\* headers RequireAuth lets through with an administrator's claims
C27_HeaderReadersAgree ==
    LET m == NewAuthMiddleware(svc["S1"])
        auth == RequireAuth(m, HeaderOnly, now)
        admin == RequireAdmin(m, HeaderOnly, now)
        verified == VerifyAdminToken(svc["S1"], req.header, now) = StatusOK
    IN  /\ PrefixCredentials(req.header) = BearerCredentials(req.header)
        /\ AdminToken(HeaderOnly) # EmptyString =>
              BearerCredentials(req.header) = {AdminToken(HeaderOnly)}
        /\ auth.next => auth.ctx = ValidateToken(svc["S1"],
                                                 CHOOSE c \in BearerCredentials(req.header) : TRUE,
                                                 now).claims
        /\ admin.next <=> verified
        /\ admin.next <=>
              auth.next /\ auth.ctx.AccountType \in {AccountTypeAdmin, AccountTypeSuperAdmin}

\* the part of it that holds: RequireAuth and RequireAdmin read the header
\* alike
C27_GatesReadHeaderAlike ==
    LET m == NewAuthMiddleware(svc["S1"])
        auth == RequireAuth(m, HeaderOnly, now)
        admin == RequireAdmin(m, HeaderOnly, now)
    IN  /\ AdminToken(HeaderOnly) # EmptyString =>
              BearerCredentials(req.header) = {AdminToken(HeaderOnly)}
        /\ auth.next => auth.ctx = ValidateToken(svc["S1"],
                                                 CHOOSE c \in BearerCredentials(req.header) : TRUE,
                                                 now).claims
        /\ admin.next <=>
              auth.next /\ auth.ctx.AccountType \in {AccountTypeAdmin, AccountTypeSuperAdmin}

-----------------------------------------------------------------------------
(* The role behind the super-admin decision of the admin surface *)
SettingsDone(p) == loc[p].op = "admin.RequireAuth" /\ pc[p] = "done"

\* UpdateSettings was called for the request
SettingsGranted(p) ==
    \E i \in 1..Len(calls[p]) : calls[p][i].fn = "UpdateSettings"

\* the token cookie of the request is a token the API accepts now
CarriesValidToken(p) ==
    /\ loc[p].input.token # EmptyString
    /\ ValidateToken(svc["S1"], loc[p].input.token, now).ok

\* C26: two finished requests to POST /settings that carry the same valid
\* token, and whose verification calls reached the API, are both let through
\* to UpdateSettings or both refused, whatever their account-type cookies say
C26_DecisionIgnoresRoleCookie ==
    \A p, q \in WebRequests :
        ( /\ SettingsDone(p) /\ SettingsDone(q)
          /\ CarriesValidToken(p)
          /\ loc[q].input.token = loc[p].input.token
          /\ VerificationSent(p) /\ VerificationSent(q) ) =>
            (SettingsGranted(p) <=> SettingsGranted(q))

\* what the code does instead: the decision follows the account-type cookie
C26_DecisionFollowsRoleCookie ==
    \A p \in WebRequests :
        (SettingsDone(p) /\ loc[p].gate.served = 1) =>
            (SettingsGranted(p) <=> loc[p].input.accountType = AccountTypeSuperAdmin)

-----------------------------------------------------------------------------
(* Who may make a super-administrator *)
\* PUT /admin/v1/users/{id} of p answered 200 with an account whose role is
\* super-admin, and the table holds that account
MadeSuperAdmin(p) ==
    /\ loc[p].op = "UpdateUser" /\ pc[p] = "done"
    /\ loc[p].resp.status = StatusOK
    /\ loc[p].resp.user.AccountType = AccountTypeSuperAdmin
    /\ \E r \in store : r.ID = loc[p].resp.user.ID /\ r.AccountType = AccountTypeSuperAdmin

\* C29: an update through the admin API leaves an account with the role
\* super-admin only when the role in the caller's token is super-admin
C29_OnlySuperAdminMakesSuperAdmin ==
    \A p \in Procs :
        MadeSuperAdmin(p) => loc[p].input.ctx.AccountType = AccountTypeSuperAdmin

====
